---- MODULE Spec2Model ----
(***************************************************************************)
(* DogSui Defender: the frame simulation loop of the latest version of the *)
(* game (src/unnamed/part_000), as a state machine.                        *)
(*                                                                         *)
(* Lengths are in pixels.  Meteors and waves have integer coordinates.     *)
(* The boss and its projectiles move in steps of half a pixel (vy = 0.5,   *)
(* speed 2.5 or 3.5), so their coordinates are kept in half pixels.        *)
(* Cosmetic state (particles, score popups, stars, flashes, shakes, the    *)
(* charge ring) never feeds back into the simulation and is left out.      *)
(***************************************************************************)
EXTENDS Integers, Sequences, FiniteSets, Bags, TLC

VARIABLES state, gamePhase, leaderboard, storedHighScore, ticks, lbCalls, removed, ev,
          loop

vars == <<state, gamePhase, leaderboard, storedHighScore, ticks, lbCalls, removed, ev,
          loop>>

---------------------------------------------------------------------------
(* Bounds of the model.                                                    *)

\* Frames simulated in one behaviour.
MaxTicks == 5
\* Waves alive at the same time.
MaxWaves == 3

---------------------------------------------------------------------------
(* Program constants.                                                      *)

WIDTH == 900
HEIGHT == 650
SUI_RADIUS == 55
CENTER_X == WIDTH \div 2
CENTER_Y == HEIGHT \div 2
HOLD_THRESHOLD_MS == 2000
LeaderboardSize == 10

SimpleCost == 10
StrongCost == 30
StartScore == 100
StartHp == 100
FirstRadius == 8
RingStagger == 30
SimpleMaxRadius == 200
\* Math.sqrt(WIDTH * WIDTH + HEIGHT * HEIGHT) + 60 = 1170.18...; a strong ring's
\* radius is an integer, so radius >= maxRadius exactly when radius >= 1171.
StrongMaxRadius == 1171
SimpleSpeed == 6
StrongSpeed == 9
SimpleThickness == 12
StrongThickness == 20
ComboWindow == 120
ComboCap == 10
HealAmount == 2
MeteorDamage == 10
CoinSlack == 10
ShieldExtra == 30
PowerUpPeriod == 300
PowerUpDuration == 600
PowerUpRadius == 18
PowerUpBand == 20
MaxPowerUps == 2
SimpleDamage == 10
StrongDamage == 25
Phase1BossScore == 1400
Phase2BossScore == 2900
Phase2Score == 1500
VictoryScore == 3000
Phase2Interval == 60
StartInterval == 80

COIN_TYPES_PHASE1 == <<"BTC", "ETH", "SOL", "PEPE">>
COIN_TYPES_PHASE2 == <<"DOGE", "SHIB", "BONK", "WIF">>

\* COIN_SPEED, in tenths.
COIN_SPEED(type) ==
    CASE type = "BTC" -> 28 [] type = "ETH" -> 22 [] type = "SOL" -> 16
      [] type = "PEPE" -> 25 [] type = "DOGE" -> 32 [] type = "SHIB" -> 35
      [] type = "BONK" -> 30 [] type = "WIF" -> 38

COIN_SCORE(type) ==
    CASE type = "BTC" -> 50 [] type = "ETH" -> 30 [] type = "SOL" -> 20
      [] type = "PEPE" -> 40 [] type = "DOGE" -> 60 [] type = "SHIB" -> 70
      [] type = "BONK" -> 55 [] type = "WIF" -> 80

\* A nullable field (T | null) is a sequence of at most one element.
NULL == <<>>
Some(x) == <<x>>

Max(a, b) == IF a >= b THEN a ELSE b
Min(a, b) == IF a <= b THEN a ELSE b

\* Array.prototype.splice(i, 1) on a 1-based sequence.
Splice(seq, i) == [k \in 1..(Len(seq) - 1) |-> IF k < i THEN seq[k] ELSE seq[k + 1]]

\* activePowerUps.some(p => p.type === type)
HasPowerUp(s, type) == \E k \in 1..Len(s.activePowerUps) : s.activePowerUps[k].type = type

---------------------------------------------------------------------------
(* Persisted leaderboard (lines 19-54).  An entry is its name and score;    *)
(* the date takes no part in the ordering.                                 *)

\* One step of the stable descending sort: x goes after every entry >= x.
InsertDesc(sorted, x) ==
    LET n == Cardinality({k \in 1..Len(sorted) : sorted[k].score >= x.score})
    IN  [k \in 1..(Len(sorted) + 1) |->
            IF k <= n THEN sorted[k] ELSE IF k = n + 1 THEN x ELSE sorted[k - 1]]

RECURSIVE SortDesc(_)
\* data.players.sort((a, b) => b.score - a.score)
SortDesc(seq) ==
    IF seq = <<>> THEN <<>>
    ELSE InsertDesc(SortDesc(SubSeq(seq, 1, Len(seq) - 1)), seq[Len(seq)])

\* addScoreToLeaderboard with the new entry sorted ahead of its equals.
addScoreToLeaderboardNewest(players, name, score) ==
    LET n == Cardinality({k \in 1..Len(players) : players[k].score > score})
        sorted == [k \in 1..(Len(players) + 1) |->
                      IF k <= n THEN players[k]
                      ELSE IF k = n + 1 THEN [name |-> name, score |-> score]
                      ELSE players[k - 1]]
    IN  SubSeq(sorted, 1, Min(Len(sorted), LeaderboardSize))

\* Lines 38-50; the stored list is what loadLeaderboard returns.
addScoreToLeaderboard(players, name, score) ==
    LET sorted == SortDesc(Append(players, [name |-> name, score |-> score]))
    IN  SubSeq(sorted, 1, Min(Len(sorted), LeaderboardSize))

---------------------------------------------------------------------------
(* The game state record (stateRef.current) and the event log.             *)

\* playerNameRef.current || "Player", with no name entered.
PlayerName == "Player"

\* The initial stateRef.current, and what resetState builds.  spawnInterval
\* is kept in tenths (the ramp subtracts 0.3); spawnDrift says that the
\* floating-point value lies just above that decimal, which is the case after
\* every subtraction (80 - 10 * 0.3 evaluates to 77.00000000000003).
NewState(mouseX, mouseY, highScore) ==
    [ score |-> StartScore, highScore |-> highScore, hp |-> StartHp,
      meteors |-> <<>>, waves |-> <<>>, powerUps |-> <<>>, activePowerUps |-> <<>>,
      mouseX |-> mouseX, mouseY |-> mouseY,
      nextMeteorId |-> 0, nextWaveId |-> 0, nextPowerUpId |-> 0,
      spawnTimer |-> 0, spawnInterval |-> 10 * StartInterval, spawnDrift |-> FALSE,
      powerUpTimer |-> 0, gameOver |-> FALSE, paused |-> FALSE,
      combo |-> 0, comboTimer |-> 0, mouseDownTime |-> NULL,
      currentPhase |-> 1, boss |-> NULL, bossDefeated |-> FALSE,
      bossProjectiles |-> <<>> ]

\* What the last frame or the last release did (history, not program state).
\* op is "tick" or "release"; phase0 is gamePhaseRef.current when the frame began;
\* held is the time in milliseconds between the press and a release; phases
\* lists the values the frame assigned to gamePhaseRef.current, in order.
\* charge follows the last press: "held" once it is recorded, "cancelled" once
\* a pause has cleared it, "dropped" once its release has been ignored.
\* overlap holds the ids of the waves whose band held the boss in the frame; spared
\* lists the meteors the shield took within the coin's own reach; name is
\* the name given to a call of addScoreToLeaderboard made outside a frame.
Event(op, phase0, score0, strong) ==
    [ op |-> op, phase0 |-> phase0, score0 |-> score0, strong |-> strong, held |-> 0,
      phases |-> <<>>, charge |-> "none", overlap |-> {},
      kills |-> <<>>, coinHits |-> <<>>,
      shieldHits |-> <<>>, projHits |-> <<>>, bossHits |-> <<>>, lbAdds |-> <<>>,
      expired |-> <<>>, spared |-> <<>>, name |-> "" ]

NoEvent == Event("none", "none", 0, FALSE)

\* The whole of what a handler reads and writes.
World ==
    [ state |-> state, gamePhase |-> gamePhase, leaderboard |-> leaderboard,
      storedHighScore |-> storedHighScore, lbCalls |-> lbCalls,
      removed |-> removed, ev |-> ev ]

Store(w) ==
    /\ state' = w.state
    /\ gamePhase' = w.gamePhase
    /\ leaderboard' = w.leaderboard
    /\ storedHighScore' = w.storedHighScore
    /\ lbCalls' = w.lbCalls
    /\ removed' = w.removed
    /\ ev' = w.ev

\* A handler other than the frame callback: it requests and cancels no frame.
Commit(w) == Store(w) /\ UNCHANGED loop

\* lastTimeRef and animFrameRef (lines 1303-1304) with the browser's list of
\* frame callbacks: pending holds the handles requested and neither run nor
\* cancelled, issued the last handle given out, clock the timestamp of the
\* latest callback, requests and passes what the latest callback did.
\* The effect of line 1475 has requested the first frame (line 2583).
Mounted ==
    [ lastTime |-> 0, animFrame |-> 1, pending |-> {1}, issued |-> 1, clock |-> 0,
      requests |-> 0, passes |-> 0 ]

---------------------------------------------------------------------------
(* Input handlers (lines 1306-1457).                                       *)

\* resetState leaving the spawn interval of the game before.
resetStateStale(s, saved) ==
    [NewState(s.mouseX, s.mouseY, saved) EXCEPT !.spawnInterval = s.spawnInterval]

\* resetState (lines 1306-1343).
resetState(s, saved) == NewState(s.mouseX, s.mouseY, saved)

StrongRing(id, ring) ==
    [ id |-> id, x |-> CENTER_X, y |-> CENTER_Y, radius |-> FirstRadius + ring * RingStagger,
      maxRadius |-> StrongMaxRadius, strong |-> TRUE ]

SimpleWave(id, originX, originY) ==
    [ id |-> id, x |-> originX, y |-> originY, radius |-> FirstRadius,
      maxRadius |-> SimpleMaxRadius, strong |-> FALSE ]

WaveCost(strong) == IF strong THEN StrongCost ELSE SimpleCost

\* fireWave without its guard: the wave is paid for whatever the score.
fireWaveUnguarded(s, strong, originX, originY) ==
    IF strong
    THEN [s EXCEPT !.score = @ - WaveCost(strong),
                   !.waves = @ \o << StrongRing(s.nextWaveId, 0),
                                     StrongRing(s.nextWaveId + 1, 1),
                                     StrongRing(s.nextWaveId + 2, 2) >>,
                   !.nextWaveId = @ + 3]
    ELSE [s EXCEPT !.score = @ - WaveCost(strong),
                   !.waves = Append(@, SimpleWave(s.nextWaveId, originX, originY)),
                   !.nextWaveId = @ + 1]

\* fireWave falling back to a simple wave when a strong one is too dear.
fireWaveDowngrade(s, strong, originX, originY) ==
    LET afforded == strong /\ s.score >= WaveCost(TRUE)
    IN  IF s.score < WaveCost(afforded) THEN s
        ELSE IF afforded
             THEN [s EXCEPT !.score = @ - WaveCost(TRUE),
                            !.waves = @ \o << StrongRing(s.nextWaveId, 0),
                                              StrongRing(s.nextWaveId + 1, 1),
                                              StrongRing(s.nextWaveId + 2, 2) >>,
                            !.nextWaveId = @ + 3]
             ELSE [s EXCEPT !.score = @ - WaveCost(FALSE),
                            !.waves = Append(@, SimpleWave(s.nextWaveId, originX, originY)),
                            !.nextWaveId = @ + 1]

\* fireWave giving the wave for nothing when the score is below its cost.
fireWaveFree(s, strong, originX, originY) ==
    LET paid == IF s.score < WaveCost(strong) THEN 0 ELSE WaveCost(strong)
    IN  IF strong
        THEN [s EXCEPT !.score = @ - paid,
                       !.waves = @ \o << StrongRing(s.nextWaveId, 0),
                                         StrongRing(s.nextWaveId + 1, 1),
                                         StrongRing(s.nextWaveId + 2, 2) >>,
                       !.nextWaveId = @ + 3]
        ELSE [s EXCEPT !.score = @ - paid,
                       !.waves = Append(@, SimpleWave(s.nextWaveId, originX, originY)),
                       !.nextWaveId = @ + 1]

\* fireWave (lines 1348-1381).
fireWave(s, strong, originX, originY) ==
    IF s.score < WaveCost(strong) THEN s
    ELSE IF strong
         THEN [s EXCEPT !.score = @ - WaveCost(strong),
                        !.waves = @ \o << StrongRing(s.nextWaveId, 0),
                                          StrongRing(s.nextWaveId + 1, 1),
                                          StrongRing(s.nextWaveId + 2, 2) >>,
                        !.nextWaveId = @ + 3]
         ELSE [s EXCEPT !.score = @ - WaveCost(strong),
                        !.waves = Append(@, SimpleWave(s.nextWaveId, originX, originY)),
                        !.nextWaveId = @ + 1]

\* The threshold taken as exclusive.
IsStrongAbove(held) == held > HOLD_THRESHOLD_MS

\* held >= HOLD_THRESHOLD_MS
IsStrong(held) == held >= HOLD_THRESHOLD_MS

handleMouseDown(s, phase, now) ==
    IF phase # "playing" THEN s ELSE [s EXCEPT !.mouseDownTime = Some(now)]

handleMouseUp(s, phase, now) ==
    IF phase # "playing" \/ s.mouseDownTime = NULL THEN s
    ELSE fireWave([s EXCEPT !.mouseDownTime = NULL],
                  IsStrong(now - s.mouseDownTime[1]), s.mouseX, s.mouseY)

---------------------------------------------------------------------------
(* Geometry.  Every test of the code compares a Euclidean distance with a  *)
(* length; on integer coordinates it is decided exactly on the squares.    *)

Sq(a) == a * a

Dist2(ax, ay, bx, by) == Sq(ax - bx) + Sq(ay - by)

\* Math.sqrt(d2) < limit
Within(d2, limit) == limit > 0 /\ d2 < Sq(limit)

\* Math.abs(Math.sqrt(d2) - radius) < reach
InBand(d2, radius, reach) ==
    /\ Within(d2, radius + reach)
    /\ (radius - reach < 0 \/ d2 > Sq(radius - reach))

Sign(a) == IF a > 0 THEN 1 ELSE IF a < 0 THEN -1 ELSE 0

---------------------------------------------------------------------------
(* Entity factories (lines 576-652).  A draw holds the values the factory  *)
(* takes from Math.random().                                               *)

CoinTypes(phase) == IF phase = 1 THEN COIN_TYPES_PHASE1 ELSE COIN_TYPES_PHASE2

\* The draws of spawnMeteor that the factory can produce: pick is
\* 1 + Math.floor(Math.random() * types.length), radius = 22 + random * 14,
\* one of four sides, and speed = (0.9 + random * 0.8) * COIN_SPEED[type] for
\* the type picked from the phase's pool.
DrawOK(phase, d) ==
    /\ d.pick \in 1..Len(CoinTypes(phase))
    /\ d.radius \in 22..35
    /\ d.side \in 0..3
    /\ 9 * COIN_SPEED(CoinTypes(phase)[d.pick]) <= 100 * d.speed
    /\ 100 * d.speed < 17 * COIN_SPEED(CoinTypes(phase)[d.pick])

\* The meteor enters at the middle of its side (Math.random() = 0.5 along the
\* edge), so the unit vector to the centre is exact.
spawnMeteor(id, phase, d) ==
    LET x == CASE d.side = 0 -> CENTER_X [] d.side = 1 -> WIDTH + d.radius
               [] d.side = 2 -> CENTER_X [] OTHER -> -d.radius
        y == CASE d.side = 0 -> -d.radius [] d.side = 1 -> CENTER_Y
               [] d.side = 2 -> HEIGHT + d.radius [] OTHER -> CENTER_Y
    IN  [ id |-> id, type |-> CoinTypes(phase)[d.pick], x |-> x, y |-> y,
          vx |-> Sign(CENTER_X - x) * d.speed, vy |-> Sign(CENTER_Y - y) * d.speed,
          radius |-> d.radius ]

\* Boss and projectile coordinates are in half pixels (vy = 0.5 is 1).
spawnBoss(id, bossType) ==
    [ id |-> id, type |-> bossType, x |-> 2 * (WIDTH \div 2), y |-> 2 * (-80), vy |-> 1,
      radius |-> IF bossType = "PEPE_KING" THEN 60 ELSE 75,
      hp |-> IF bossType = "PEPE_KING" THEN 1000 ELSE 2000,
      maxHp |-> IF bossType = "PEPE_KING" THEN 1000 ELSE 2000,
      attackTimer |-> 0 ]

\* The boss stands above the centre when it fires (dx = 0) and the random
\* angle offset is 0, so the velocity is (0, speed): 2.5 or 3.5 pixels.
spawnBossProjectile(id, bossX, bossY, bossType) ==
    LET speed == IF bossType = "PEPE_KING" THEN 5 ELSE 7
    IN  [ id |-> id, x |-> bossX, y |-> bossY,
          vx |-> Sign(2 * CENTER_X - bossX) * speed * (IF bossY = 2 * CENTER_Y THEN 1 ELSE 0),
          vy |-> Sign(2 * CENTER_Y - bossY) * speed * (IF bossX = 2 * CENTER_X THEN 1 ELSE 0),
          radius |-> IF bossType = "PEPE_KING" THEN 8 ELSE 10,
          damage |-> IF bossType = "PEPE_KING" THEN 3 ELSE 5 ]

---------------------------------------------------------------------------
(* gameLoop, first half: spawning, power-ups, combo timer (lines 2147-2216) *)

Removal(id, by) == SetToBag({[id |-> id, by |-> by]})

\* state.spawnTimer >= state.spawnInterval, with the interval in tenths
SpawnDue(s) ==
    \/ 10 * s.spawnTimer > s.spawnInterval
    \/ 10 * s.spawnTimer = s.spawnInterval /\ ~s.spawnDrift

SpawnFloor(phase) == IF phase = 1 THEN 400 ELSE 300

RECURSIVE PushMeteors(_, _, _)
\* for (i < count) state.meteors.push(spawnMeteor(state.nextMeteorId++, phase))
PushMeteors(s, draws, k) ==
    IF k > Len(draws) THEN s
    ELSE PushMeteors([s EXCEPT !.meteors = Append(@, spawnMeteor(s.nextMeteorId, s.currentPhase, draws[k])),
                               !.nextMeteorId = @ + 1], draws, k + 1)

\* Lines 2149-2160.  draws holds one draw for each meteor of the batch.
SpawnStep(s, draws) ==
    LET s1 == [s EXCEPT !.spawnTimer = @ + 1]
    IN  IF ~SpawnDue(s1) THEN s1
        ELSE LET s2 == PushMeteors([s1 EXCEPT !.spawnTimer = 0], draws, 1)
                 lower == s2.spawnInterval - 3
             IN  IF lower >= SpawnFloor(s2.currentPhase)
                 THEN [s2 EXCEPT !.spawnInterval = lower, !.spawnDrift = TRUE]
                 ELSE [s2 EXCEPT !.spawnInterval = SpawnFloor(s2.currentPhase),
                                 !.spawnDrift = FALSE]

\* A power-up appears at distance 150 + random * 200 from the centre.
PowerUpOK(d) ==
    /\ d.type \in {"shield", "speed", "multiplier", "heal"}
    /\ Dist2(d.x, d.y, CENTER_X, CENTER_Y) >= Sq(150)
    /\ Within(Dist2(d.x, d.y, CENTER_X, CENTER_Y), 350)

\* Lines 2163-2181.  draw is NULL when Math.random() >= 0.5.
PowerUpSpawn(s, draw) ==
    LET s1 == [s EXCEPT !.powerUpTimer = @ + 1]
    IN  IF s1.powerUpTimer < PowerUpPeriod THEN s1
        ELSE IF draw # NULL /\ Len(s1.powerUps) < MaxPowerUps
             THEN [s1 EXCEPT !.powerUpTimer = 0,
                             !.powerUps = Append(@, [ id |-> s1.nextPowerUpId, type |-> draw[1].type,
                                                      x |-> draw[1].x, y |-> draw[1].y,
                                                      radius |-> PowerUpRadius ]),
                             !.nextPowerUpId = @ + 1]
             ELSE [s1 EXCEPT !.powerUpTimer = 0]

Collected(s, p) ==
    \E k \in 1..Len(s.waves) :
        InBand(Dist2(p.x, p.y, s.waves[k].x, s.waves[k].y), s.waves[k].radius,
               PowerUpBand + p.radius)

RECURSIVE PowerUpCollect(_, _)
\* Lines 2184-2200, from the last power-up to the first.
PowerUpCollect(s, i) ==
    IF i = 0 THEN s
    ELSE IF Collected(s, s.powerUps[i])
         THEN PowerUpCollect([s EXCEPT !.activePowerUps = Append(@, [ type |-> s.powerUps[i].type,
                                                                      duration |-> PowerUpDuration ]),
                                       !.powerUps = Splice(@, i)], i - 1)
         ELSE PowerUpCollect(s, i - 1)

\* Lines 2203-2208.
ActivePowerUpStep(s) ==
    LET aged == [k \in 1..Len(s.activePowerUps) |->
                    [s.activePowerUps[k] EXCEPT !.duration = @ - 1]]
    IN  [s EXCEPT !.activePowerUps = SelectSeq(aged, LAMBDA p : p.duration > 0)]

\* Lines 2211-2216.
ComboTimerStep(s) ==
    IF s.comboTimer > 0
    THEN [s EXCEPT !.comboTimer = @ - 1, !.combo = IF s.comboTimer - 1 <= 0 THEN 0 ELSE @]
    ELSE s

---------------------------------------------------------------------------
(* gameLoop: meteors against the coin (lines 2218-2261).                   *)

\* Lines 2245-2259: the game ends, the score is recorded.
EndByCollision(w) ==
    LET s == w.state
        high == s.score > s.highScore
    IN  [w EXCEPT !.state.gameOver = TRUE,
                  !.state.highScore = IF high THEN s.score ELSE @,
                  !.storedHighScore = IF high THEN s.score ELSE @,
                  !.leaderboard = addScoreToLeaderboard(@, PlayerName, s.score),
                  !.lbCalls = @ + 1,
                  !.ev.lbAdds = Append(@, s.score),
                  !.ev.phases = Append(@, "gameover"),
                  !.gamePhase = "gameover"]

\* The body of the loop for meteor i with the coin's test ahead of the shield's.
MeteorStepCoinFirst(w, i) ==
    LET s == w.state
        m == [s.meteors[i] EXCEPT !.x = @ + s.meteors[i].vx, !.y = @ + s.meteors[i].vy]
        d2 == Dist2(m.x, m.y, CENTER_X, CENTER_Y)
    IN  IF Within(d2, SUI_RADIUS + m.radius - CoinSlack)
        THEN LET w1 == [w EXCEPT !.state.meteors = Splice(@, i),
                                 !.state.hp = Max(0, @ - MeteorDamage),
                                 !.removed = @ (+) Removal(m.id, "coin"),
                                 !.ev.coinHits = Append(@, m.id)]
             IN  IF w1.state.hp <= 0 THEN EndByCollision(w1) ELSE w1
        ELSE IF HasPowerUp(s, "shield") /\ Within(d2, SUI_RADIUS + ShieldExtra + m.radius)
             THEN [w EXCEPT !.state.meteors = Splice(@, i),
                            !.removed = @ (+) Removal(m.id, "shield"),
                            !.ev.shieldHits = Append(@, m.id)]
             ELSE [w EXCEPT !.state.meteors[i] = m]

\* The body of the loop for meteor i (lines 2219-2260).
MeteorStep(w, i) ==
    LET s == w.state
        m == [s.meteors[i] EXCEPT !.x = @ + s.meteors[i].vx, !.y = @ + s.meteors[i].vy]
        d2 == Dist2(m.x, m.y, CENTER_X, CENTER_Y)
    IN  IF HasPowerUp(s, "shield") /\ Within(d2, SUI_RADIUS + ShieldExtra + m.radius)
        THEN [w EXCEPT !.state.meteors = Splice(@, i),
                       !.removed = @ (+) Removal(m.id, "shield"),
                       !.ev.shieldHits = Append(@, m.id),
                       !.ev.spared = IF Within(d2, SUI_RADIUS + m.radius - CoinSlack)
                                     THEN Append(@, m.id) ELSE @]
        ELSE IF Within(d2, SUI_RADIUS + m.radius - CoinSlack)
             THEN LET w1 == [w EXCEPT !.state.meteors = Splice(@, i),
                                      !.state.hp = Max(0, @ - MeteorDamage),
                                      !.removed = @ (+) Removal(m.id, "coin"),
                                      !.ev.coinHits = Append(@, m.id)]
                  IN  IF w1.state.hp <= 0 THEN EndByCollision(w1) ELSE w1
             ELSE [w EXCEPT !.state.meteors[i] = m]

RECURSIVE MeteorLoop(_, _)
\* for (let i = state.meteors.length - 1; i >= 0; i--)
MeteorLoop(w, i) == IF i = 0 THEN w ELSE MeteorLoop(MeteorStep(w, i), i - 1)

---------------------------------------------------------------------------
(* gameLoop: the boss (lines 2263-2374).                                   *)

BossActive(s) == s.boss # NULL /\ ~s.bossDefeated

\* Lines 2270-2279.  Past y = 150 the boss is put on its orbit at the angle
\* Date.now() * orbitSpeed; the model samples the orbit at its lowest
\* ("S", angle pi/2) and highest ("N", angle 3 pi/2) points.
BossMove(b, angle) ==
    IF b.y < 2 * 150 THEN [b EXCEPT !.y = @ + b.vy]
    ELSE [b EXCEPT !.x = 2 * CENTER_X,
                   !.y = 2 * (150 + (IF angle = "S" THEN 50 ELSE -50))]

MinionRate(b) == IF b.type = "PEPE_KING" THEN 150 ELSE 100
MinionCount(b) == IF b.type = "PEPE_KING" THEN 2 ELSE 3
MinionPhase(b) == IF b.type = "PEPE_KING" THEN 1 ELSE 2
ProjectileRate(b) == IF b.type = "PEPE_KING" THEN 80 ELSE 60

\* Lines 2288-2291: a meteor of spawnMeteor moved next to the boss; the
\* offsets (random - 0.5) * 100 are 0, or half a pixel where the boss
\* stands on a half pixel.
Minion(id, b, d) ==
    [spawnMeteor(id, MinionPhase(b), d) EXCEPT !.x = (b.x + (b.x % 2)) \div 2,
                                                !.y = (b.y + (b.y % 2)) \div 2]

RECURSIVE PushMinions(_, _, _, _)
PushMinions(s, b, draws, k) ==
    IF k > Len(draws) THEN s
    ELSE PushMinions([s EXCEPT !.meteors = Append(@, Minion(s.nextMeteorId, b, draws[k])),
                               !.nextMeteorId = @ + 1], b, draws, k + 1)

\* Lines 2283-2300, for the boss b after its move.
BossAttack(s, b, draws) ==
    LET s1 == IF b.attackTimer % MinionRate(b) = 0 THEN PushMinions(s, b, draws, 1) ELSE s
    IN  IF b.attackTimer % ProjectileRate(b) = 0 /\ b.y > 2 * 100
        THEN [s1 EXCEPT !.bossProjectiles = Append(@, spawnBossProjectile(s1.nextMeteorId, b.x, b.y, b.type)),
                        !.nextMeteorId = @ + 1]
        ELSE s1

\* Line 2310, in half pixels.
WaveHitsBoss(wv, b) ==
    InBand(Dist2(b.x, b.y, 2 * wv.x, 2 * wv.y), 2 * wv.radius,
           2 * ((IF wv.strong THEN StrongThickness ELSE SimpleThickness) + b.radius))

WaveDamage(wv) == IF wv.strong THEN StrongDamage ELSE SimpleDamage

BossBonus(b) == IF b.type = "PEPE_KING" THEN 500 ELSE 1000

\* Lines 2311-2338: wave wv damages the boss.
BossHit(w, wv) ==
    LET b == w.state.boss[1]
        hp == b.hp - WaveDamage(wv)
        w1 == [w EXCEPT !.state.boss = Some([b EXCEPT !.hp = hp]),
                        !.state.score = @ + WaveDamage(wv),
                        !.ev.bossHits = Append(@, [wave |-> wv.id, damage |-> WaveDamage(wv),
                                                    type |-> b.type, left |-> hp])]
    IN  IF hp <= 0
        THEN [w1 EXCEPT !.state.bossDefeated = TRUE,
                        !.state.score = @ + BossBonus(b),
                        !.state.boss = NULL]
        ELSE w1

\* The loop of lines 2303-2341 without its break: the first wave in array
\* order that reaches the boss damages it too, while there is a boss.
BossWavesNoBreak(w) ==
    LET s == w.state
        hitting == {k \in 1..Len(s.waves) : WaveHitsBoss(s.waves[k], s.boss[1])}
        last == CHOOSE k \in hitting : \A j \in hitting : j <= k
        first == CHOOSE k \in hitting : \A j \in hitting : j >= k
        w0 == [w EXCEPT !.ev.overlap = {s.waves[k].id : k \in hitting}]
        w1 == BossHit(w0, s.waves[last])
    IN  IF hitting = {} THEN w
        ELSE IF first # last /\ w1.state.boss # NULL THEN BossHit(w1, s.waves[first])
        ELSE w1

\* Lines 2303-2341: the last wave in array order that reaches the boss hits
\* it, and the loop stops there.
BossWaves(w) ==
    LET s == w.state
        hitting == {k \in 1..Len(s.waves) : WaveHitsBoss(s.waves[k], s.boss[1])}
    IN  IF hitting = {} THEN w
        ELSE BossHit([w EXCEPT !.ev.overlap = {s.waves[k].id : k \in hitting}],
                     s.waves[CHOOSE k \in hitting : \A j \in hitting : j <= k])

OffScreen(p) ==
    \/ p.x < 2 * (-50)
    \/ p.x > 2 * (WIDTH + 50)
    \/ p.y < 2 * (-50)
    \/ p.y > 2 * (HEIGHT + 50)

\* Lines 2345-2372, for projectile i.
ProjectileStep(w, i) ==
    LET s == w.state
        p == [s.bossProjectiles[i] EXCEPT !.x = @ + s.bossProjectiles[i].vx,
                                          !.y = @ + s.bossProjectiles[i].vy]
    IN  IF Within(Dist2(p.x, p.y, 2 * CENTER_X, 2 * CENTER_Y), 2 * (SUI_RADIUS + p.radius))
        THEN LET hp == s.hp - p.damage
             IN  [w EXCEPT !.state.bossProjectiles = Splice(@, i),
                           !.state.hp = IF hp <= 0 THEN 0 ELSE hp,
                           !.state.gameOver = IF hp <= 0 THEN TRUE ELSE @,
                           !.ev.projHits = Append(@, p.id)]
        ELSE IF OffScreen(p)
             THEN [w EXCEPT !.state.bossProjectiles = Splice(@, i)]
             ELSE [w EXCEPT !.state.bossProjectiles[i] = p]

RECURSIVE ProjectileLoop(_, _)
ProjectileLoop(w, i) == IF i = 0 THEN w ELSE ProjectileLoop(ProjectileStep(w, i), i - 1)

\* Lines 2264-2374.  The block runs only while a boss is active.
BossStep(w, angle, draws) ==
    IF ~BossActive(w.state) THEN w
    ELSE LET b0 == w.state.boss[1]
             b == BossMove([b0 EXCEPT !.attackTimer = @ + 1], angle)
             w1 == [w EXCEPT !.state = BossAttack([@ EXCEPT !.boss = Some(b)], b, draws)]
             w2 == BossWaves(w1)
         IN  ProjectileLoop(w2, Len(w2.state.bossProjectiles))

---------------------------------------------------------------------------
(* drawWaves (lines 1718-1810): expansion, hit detection, progression.     *)

ExpandSpeed(wv) == IF wv.strong THEN StrongSpeed ELSE SimpleSpeed

RingThickness(wv) == IF wv.strong THEN StrongThickness ELSE SimpleThickness

\* The band test with its edges included: |dist - radius| <= reach.
WaveHitsMeteorClosed(wv, m) ==
    LET d2 == Dist2(m.x, m.y, wv.x, wv.y)
        reach == RingThickness(wv) + m.radius
    IN  /\ d2 <= Sq(wv.radius + reach)
        /\ (wv.radius - reach <= 0 \/ d2 >= Sq(wv.radius - reach))

\* Line 1738.
WaveHitsMeteor(wv, m) ==
    InBand(Dist2(m.x, m.y, wv.x, wv.y), wv.radius, RingThickness(wv) + m.radius)

\* Lines 1749-1753.  Math.floor(points * (1 + comboMultiplier * 0.1)) in
\* double arithmetic equals the integer quotient below for every reward of
\* COIN_SCORE, doubled or not, and every comboMultiplier in 1..10.
KillPoints(type, hasMultiplier, combo) ==
    LET points == IF hasMultiplier THEN 2 * COIN_SCORE(type) ELSE COIN_SCORE(type)
    IN  (points * (10 + Min(combo, ComboCap))) \div 10

\* A kill whose heal is not capped.
KillUncapped(w, wv, j) ==
    LET s == w.state
        m == s.meteors[j]
        combo == s.combo + 1
        points == KillPoints(m.type, HasPowerUp(s, "multiplier"), combo)
    IN  [w EXCEPT !.state.combo = combo,
                  !.state.comboTimer = ComboWindow,
                  !.state.score = @ + points,
                  !.state.meteors = Splice(@, j),
                  !.state.hp = IF HasPowerUp(s, "heal") THEN @ + HealAmount ELSE @,
                  !.removed = @ (+) Removal(m.id, "wave"),
                  !.ev.kills = Append(@, [ wave |-> wv.id, meteor |-> m.id, type |-> m.type,
                                           d2 |-> Dist2(m.x, m.y, wv.x, wv.y),
                                           radius |-> wv.radius, strong |-> wv.strong,
                                           mradius |-> m.radius,
                                           multiplier |-> HasPowerUp(s, "multiplier"),
                                           gain |-> points ])]

\* A kill that leaves the meteor in the collection while the heal power-up
\* is active.
KillKeeps(w, wv, j) ==
    LET s == w.state
        m == s.meteors[j]
        combo == s.combo + 1
        points == KillPoints(m.type, HasPowerUp(s, "multiplier"), combo)
    IN  [w EXCEPT !.state.combo = combo,
                  !.state.comboTimer = ComboWindow,
                  !.state.score = @ + points,
                  !.state.meteors = IF HasPowerUp(s, "heal") THEN @ ELSE Splice(@, j),
                  !.state.hp = IF HasPowerUp(s, "heal") THEN Min(100, @ + HealAmount) ELSE @,
                  !.removed = @ (+) Removal(m.id, "wave"),
                  !.ev.kills = Append(@, [ wave |-> wv.id, meteor |-> m.id, type |-> m.type,
                                           d2 |-> Dist2(m.x, m.y, wv.x, wv.y),
                                           radius |-> wv.radius, strong |-> wv.strong,
                                           mradius |-> m.radius,
                                           multiplier |-> HasPowerUp(s, "multiplier"),
                                           gain |-> points ])]

\* Lines 1739-1771: wave wv destroys meteor j.
Kill(w, wv, j) ==
    LET s == w.state
        m == s.meteors[j]
        combo == s.combo + 1
        points == KillPoints(m.type, HasPowerUp(s, "multiplier"), combo)
    IN  [w EXCEPT !.state.combo = combo,
                  !.state.comboTimer = ComboWindow,
                  !.state.score = @ + points,
                  !.state.meteors = Splice(@, j),
                  !.state.hp = IF HasPowerUp(s, "heal") THEN Min(100, @ + HealAmount) ELSE @,
                  !.removed = @ (+) Removal(m.id, "wave"),
                  !.ev.kills = Append(@, [ wave |-> wv.id, meteor |-> m.id, type |-> m.type,
                                           d2 |-> Dist2(m.x, m.y, wv.x, wv.y),
                                           radius |-> wv.radius, strong |-> wv.strong,
                                           mradius |-> m.radius,
                                           multiplier |-> HasPowerUp(s, "multiplier"),
                                           gain |-> points ])]

RECURSIVE HitLoop(_, _, _)
\* for (let j = state.meteors.length - 1; j >= 0; j--)
HitLoop(w, wv, j) ==
    IF j = 0 THEN w
    ELSE IF WaveHitsMeteor(wv, w.state.meteors[j])
         THEN HitLoop(Kill(w, wv, j), wv, j - 1)
         ELSE HitLoop(w, wv, j - 1)

\* Lines 1796-1810: the second boss is beaten and the score is recorded.
Complete(w) ==
    LET s == w.state
        high == s.score > s.highScore
    IN  [w EXCEPT !.state.gameOver = TRUE,
                  !.state.highScore = IF high THEN s.score ELSE @,
                  !.storedHighScore = IF high THEN s.score ELSE @,
                  !.leaderboard = addScoreToLeaderboard(@, PlayerName, s.score),
                  !.lbCalls = @ + 1,
                  !.ev.lbAdds = Append(@, s.score),
                  !.ev.phases = Append(@, "phasecomplete"),
                  !.gamePhase = "phasecomplete"]

\* The phase-1 spawn without the test of bossDefeated.
SpawnBoss1Again(w) ==
    LET s == w.state
    IN  IF s.score >= Phase1BossScore /\ s.currentPhase = 1 /\ s.boss = NULL
        THEN [w EXCEPT !.state.boss = Some(spawnBoss(s.nextMeteorId, "PEPE_KING")),
                       !.state.nextMeteorId = @ + 1]
        ELSE w

\* Lines 1776-1779.
SpawnBoss1(w) ==
    LET s == w.state
    IN  IF s.score >= Phase1BossScore /\ s.currentPhase = 1 /\ s.boss = NULL /\ ~s.bossDefeated
        THEN [w EXCEPT !.state.boss = Some(spawnBoss(s.nextMeteorId, "PEPE_KING")),
                       !.state.nextMeteorId = @ + 1]
        ELSE w

\* Lines 1782-1785.
SpawnBoss2(w) ==
    LET s == w.state
    IN  IF s.score >= Phase2BossScore /\ s.currentPhase = 2 /\ s.boss = NULL /\ ~s.bossDefeated
        THEN [w EXCEPT !.state.boss = Some(spawnBoss(s.nextMeteorId, "BONK_BOSS")),
                       !.state.nextMeteorId = @ + 1]
        ELSE w

\* The transition taken on the score alone.
PhaseTransitionEarly(w) ==
    LET s == w.state
    IN  IF s.currentPhase = 1 /\ s.score >= Phase2Score
        THEN [w EXCEPT !.state.currentPhase = 2,
                       !.state.bossDefeated = FALSE,
                       !.state.spawnInterval = 10 * Phase2Interval,
                       !.state.spawnDrift = FALSE]
        ELSE w

\* Lines 1788-1793.
PhaseTransition(w) ==
    LET s == w.state
    IN  IF s.currentPhase = 1 /\ s.bossDefeated /\ s.score >= Phase2Score
        THEN [w EXCEPT !.state.currentPhase = 2,
                       !.state.bossDefeated = FALSE,
                       !.state.spawnInterval = 10 * Phase2Interval,
                       !.state.spawnDrift = FALSE]
        ELSE w

\* Lines 1796-1810.
PhaseCompletion(w) ==
    LET s == w.state
    IN  IF s.currentPhase = 2 /\ s.bossDefeated /\ s.score >= VictoryScore
        THEN Complete(w)
        ELSE w

\* Lines 1775-1810, run once for every wave that is still alive.
WaveChecks(w) == PhaseCompletion(PhaseTransition(SpawnBoss2(SpawnBoss1(w))))

\* The loop body removing a wave only once its radius exceeds maxRadius.
WaveStepLate(w, i) ==
    LET wv == [w.state.waves[i] EXCEPT !.radius = @ + ExpandSpeed(w.state.waves[i])]
    IN  IF wv.radius > wv.maxRadius
        THEN [w EXCEPT !.state.waves = Splice(@, i), !.ev.expired = Append(@, wv.id)]
        ELSE LET w1 == [w EXCEPT !.state.waves[i] = wv]
             IN  WaveChecks(HitLoop(w1, wv, Len(w1.state.meteors)))

\* Lines 1720-1810: the body of the loop for wave i.
WaveStep(w, i) ==
    LET wv == [w.state.waves[i] EXCEPT !.radius = @ + ExpandSpeed(w.state.waves[i])]
    IN  IF wv.radius >= wv.maxRadius
        THEN [w EXCEPT !.state.waves = Splice(@, i), !.ev.expired = Append(@, wv.id)]
        ELSE LET w1 == [w EXCEPT !.state.waves[i] = wv]
             IN  WaveChecks(HitLoop(w1, wv, Len(w1.state.meteors)))

RECURSIVE WaveLoop(_, _)
\* for (let i = state.waves.length - 1; i >= 0; i--)
WaveLoop(w, i) == IF i = 0 THEN w ELSE WaveLoop(WaveStep(w, i), i - 1)

drawWaves(w) == WaveLoop(w, Len(w.state.waves))

---------------------------------------------------------------------------
(* gameLoop (lines 2116-2581), one executed frame.                         *)

\* What Math.random() and Date.now() supply to one frame: the spawn batch,
\* the power-up, the boss's orbit angle and its minions.
Simulate(w, rnd) ==
    LET s1 == SpawnStep(w.state, rnd.batch)
        s2 == PowerUpSpawn(s1, rnd.powerUp)
        s3 == PowerUpCollect(s2, Len(s2.powerUps))
        s4 == ComboTimerStep(ActivePowerUpStep(s3))
        w1 == [w EXCEPT !.state = s4]
        w2 == MeteorLoop(w1, Len(w1.state.meteors))
    IN  BossStep(w2, rnd.angle, rnd.minions)

\* A frame that simulates while the game is paused too.
gameLoopUnpaused(w, rnd) ==
    LET phase == w.gamePhase
        w0 == [w EXCEPT !.ev = [Event("tick", phase, w.state.score, FALSE)
                                   EXCEPT !.charge = w.ev.charge]]
    IN  IF phase \in {"playing", "paused"} THEN drawWaves(Simulate(w0, rnd)) ELSE w0

\* phase is read once, at line 2130; drawWaves at line 2482 is guarded by it.
gameLoop(w, rnd) ==
    LET phase == w.gamePhase
        w0 == [w EXCEPT !.ev = [Event("tick", phase, w.state.score, FALSE)
                                   EXCEPT !.charge = w.ev.charge]]
    IN  IF phase = "playing" THEN drawWaves(Simulate(w0, rnd)) ELSE w0

---------------------------------------------------------------------------
(* Inputs the model draws from.                                            *)

\* performance.now() at a press, and the time a button is held.
PressTimes == {0}
HoldTimes == {1999, 2000}

\* Pointer positions in canvas coordinates.
MousePositions == {<<CENTER_X, CENTER_Y>>, <<CENTER_X, 200>>}

\* Meteor draws of each phase: BTC and SOL in phase 1, DOGE and WIF in phase 2.
MeteorDraws(phase) ==
    { d \in { [pick |-> 1, radius |-> 22, side |-> 0, speed |-> 4],
              [pick |-> 3, radius |-> 30, side |-> 0, speed |-> 2],
              [pick |-> 4, radius |-> 24, side |-> 0, speed |-> 5] } : DrawOK(phase, d) }

\* count = baseCount + Math.floor(Math.random() * extraCount)
BatchSizes(phase) == IF phase = 1 THEN 4..5 ELSE 5..7

PowerUpDraws ==
    { d \in { [type |-> "heal", x |-> CENTER_X, y |-> 125],
              [type |-> "shield", x |-> CENTER_X, y |-> 25] } : PowerUpOK(d) }

BossAngles == {"S", "N"}

\* The draws one frame can consume in state s.  A batch is sampled with all
\* its meteors alike.
Batches(s) ==
    IF SpawnDue([s EXCEPT !.spawnTimer = @ + 1])
    THEN { [k \in 1..n |-> d] : n \in BatchSizes(s.currentPhase), d \in MeteorDraws(s.currentPhase) }
    ELSE {<<>>}

PowerUpChoices(s) ==
    IF s.powerUpTimer + 1 >= PowerUpPeriod /\ Len(s.powerUps) < MaxPowerUps
    THEN {NULL} \cup {Some(d) : d \in PowerUpDraws}
    ELSE {NULL}

AngleChoices(s) ==
    IF BossActive(s) /\ s.boss[1].y >= 2 * 150 THEN BossAngles ELSE {"S"}

\* The draws of a minion: as a meteor's, entering from above or from below.
MinionDraws(phase) ==
    { d \in { [pick |-> 1, radius |-> 22, side |-> 0, speed |-> 4],
              [pick |-> 1, radius |-> 22, side |-> 2, speed |-> 4] } : DrawOK(phase, d) }

MinionChoices(s) ==
    IF BossActive(s) /\ (s.boss[1].attackTimer + 1) % MinionRate(s.boss[1]) = 0
    THEN [1..MinionCount(s.boss[1]) -> MinionDraws(MinionPhase(s.boss[1]))]
    ELSE {<<>>}

Draws(s) ==
    { [batch |-> b, powerUp |-> p, angle |-> a, minions |-> m] :
        b \in Batches(s), p \in PowerUpChoices(s), a \in AngleChoices(s), m \in MinionChoices(s) }

---------------------------------------------------------------------------
(* The state after construction (lines 1261-1304): the login screen, an    *)
(* empty store.                                                            *)

Constructed ==
    [ state |-> NewState(CENTER_X, CENTER_Y, 0), gamePhase |-> "login", leaderboard |-> <<>>,
      storedHighScore |-> 0, lbCalls |-> 0, removed |-> EmptyBag, ev |-> NoEvent ]

\* handleLogin, startGame and restartGame (lines 1435-1457).
handleLogin(w) == [w EXCEPT !.gamePhase = "start"]

startGame(w) ==
    [w EXCEPT !.state = resetState(w.state, w.storedHighScore), !.gamePhase = "playing",
              !.lbCalls = 0, !.removed = EmptyBag, !.ev = NoEvent]

restartGame(w) == startGame(w)

\* togglePause leaving a recorded press in place.
togglePauseKeeps(w) ==
    IF w.gamePhase = "playing"
    THEN [w EXCEPT !.gamePhase = "paused", !.state.paused = TRUE,
                   !.ev.charge = IF @ = "held" THEN "cancelled" ELSE @]
    ELSE IF w.gamePhase = "paused"
         THEN [w EXCEPT !.gamePhase = "playing", !.state.paused = FALSE]
         ELSE w

\* togglePause (lines 1417-1432).
togglePause(w) ==
    IF w.gamePhase = "playing"
    THEN [w EXCEPT !.gamePhase = "paused", !.state.paused = TRUE, !.state.mouseDownTime = NULL,
                   !.ev.charge = IF @ = "held" THEN "cancelled" ELSE @]
    ELSE IF w.gamePhase = "paused"
         THEN [w EXCEPT !.gamePhase = "playing", !.state.paused = FALSE]
         ELSE w

\* handleMouseMove (lines 1479-1485).
handleMouseMove(w, pos) == [w EXCEPT !.state.mouseX = pos[1], !.state.mouseY = pos[2]]

\* A left-button press.
Press(w, now) ==
    [w EXCEPT !.state = handleMouseDown(w.state, w.gamePhase, now),
              !.ev.charge = IF w.gamePhase = "playing" THEN "held" ELSE @]

\* A left-button release that handleMouseUp ignores (lines 1397 and 1400).
Drop(w) == [w EXCEPT !.ev.charge = IF @ = "cancelled" THEN "dropped" ELSE @]

\* A left-button release that reaches fireWave.
Release(w, now) ==
    [w EXCEPT !.state = handleMouseUp(w.state, w.gamePhase, now),
              !.ev = [Event("release", w.gamePhase, w.state.score,
                             IsStrong(now - w.state.mouseDownTime[1]))
                         EXCEPT !.held = now - w.state.mouseDownTime[1]]]

---------------------------------------------------------------------------
(* Games in progress.  A game is played from the constructed state by a    *)
(* script: each step gives the inputs made before its frames and the draws *)
(* of those frames, so every state below is one the program reaches.       *)

\* A press at time 0 and the release held milliseconds later.
Click(w, held) ==
    LET w1 == Press(w, 0)
    IN  IF w1.gamePhase = "playing" /\ w1.state.mouseDownTime # NULL
        THEN Release(w1, held)
        ELSE w1

\* A player who releases a simple wave at the pointer as soon as a meteor is
\* within reach of it and no wave is alive.
Guard(w, reach) ==
    LET s == w.state
    IN  IF /\ s.waves = <<>>
           /\ \E k \in 1..Len(s.meteors) :
                 Within(Dist2(s.meteors[k].x, s.meteors[k].y, s.mouseX, s.mouseY), reach)
        THEN Click(w, 1)
        ELSE w

RECURSIVE Inputs(_, _, _)
\* The inputs of a step, in order: <<"move", pos>>, <<"click", held>>, <<"pause">>.
Inputs(w, acts, k) ==
    IF k > Len(acts) THEN w
    ELSE LET a == acts[k]
         IN  Inputs(CASE a[1] = "move" -> handleMouseMove(w, a[2])
                      [] a[1] = "click" -> Click(w, a[2])
                      [] OTHER -> togglePause(w), acts, k + 1)

\* The draws of a scripted frame: every meteor of a batch is step.draw, and
\* the boss is on its orbit at step.angle.
ScriptDraws(s, step) ==
    [ batch |-> [k \in 1..step.size |-> step.draw],
      powerUp |-> step.powerUp,
      angle |-> step.angle,
      minions |-> IF BossActive(s) THEN [k \in 1..MinionCount(s.boss[1]) |-> step.draw]
                  ELSE <<>> ]

\* A player who releases one more simple wave as long as the score is above keep.
Spend(w, keep) == IF w.state.score > keep THEN Click(w, 1) ELSE w

\* One scripted frame: the player's releases, if any, then gameLoop.
Frame(w, step) ==
    LET w1 == IF step.reach > 0 THEN Guard(w, step.reach) ELSE w
        w2 == IF step.spend # NULL THEN Spend(w1, step.spend[1]) ELSE w1
    IN  gameLoop(w2, ScriptDraws(w2.state, step))

RECURSIVE Frames(_, _, _)
\* n frames of a step, n >= 1, stopping once the game has ended.
Frames(w, step, n) ==
    IF n = 1 THEN Frame(w, step)
    ELSE LET half == Frames(w, step, n \div 2)
         IN  IF half.gamePhase \in {"gameover", "phasecomplete"} THEN half
             ELSE Frames(half, step, n - (n \div 2))

RECURSIVE Play(_, _, _)
Play(w, script, k) ==
    IF k > Len(script) THEN w
    ELSE LET w1 == Frames(Inputs(w, script[k].acts, 1), script[k], script[k].frames)
         IN  IF w1.gamePhase \in {"gameover", "phasecomplete"} THEN w1
             ELSE Play(w1, script, k + 1)

\* The first type of the pool (BTC, or DOGE in phase 2) and, for phase 1, SOL.
Btc == [pick |-> 1, radius |-> 22, side |-> 0, speed |-> 4]
Sol == [pick |-> 3, radius |-> 30, side |-> 0, speed |-> 2]

\* frames frames with no input, batches of size meteors d.
Idle(frames, size, d) ==
    [acts |-> <<>>, frames |-> frames, reach |-> 0, size |-> size, draw |-> d, powerUp |-> NULL,
     angle |-> "S", spend |-> NULL]

Playing == startGame(handleLogin(Constructed))

\* A player who keeps the coin safe: batches of five BTC, a wave at 150.
Defend(frames) == [Idle(frames, 5, Btc) EXCEPT !.reach = 150]

\* As Defend against SOL, with a heal power-up offered above the coin.
Collect(frames) ==
    [Idle(frames, 4, Sol) EXCEPT !.reach = 150,
                                 !.powerUp = Some([type |-> "heal", x |-> CENTER_X, y |-> 125])]

\* Eight simple waves released at once, about to fade: score 20.
Spent ==
    Play(Playing, << [Idle(31, 4, Btc) EXCEPT !.acts = [k \in 1..8 |-> <<"click", 1>>]] >>, 1)

\* One frame before the first batch of meteors.
BeforeSpawn == Play(Playing, << Idle(79, 4, Btc) >>, 1)

\* Nine meteors have hit the coin (hp 10); four SOL are two frames from it
\* and four BTC follow them.
Impact ==
    Play(Playing, << Idle(159, 5, Btc), Idle(80, 4, Btc), Idle(80, 4, Sol), Idle(59, 4, Btc) >>, 1)

\* hp 100 with the heal power-up active; a wave is two frames from four SOL.
Healing == Play(Playing, << Collect(433) >>, 1)

\* PEPE_KING is orbiting, the coin has hp 1 after nine meteors and three
\* projectiles, and the fourth projectile is two frames from the coin.
BossFight == Play(Playing, << Idle(159, 5, Btc), Idle(70, 4, Btc), Defend(971) >>, 1)

\* The three rings of a strong wave, the outermost one frame from maxRadius.
StrongFade ==
    Play(Playing, << [Idle(122, 4, Btc) EXCEPT !.acts = << <<"click", HOLD_THRESHOLD_MS>> >>] >>, 1)

\* A simple wave released at (450, 200) whose ring is two frames from the
\* edge of its band around four BTC: |dist - radius| = 12 + 22 comes first.
Grazing ==
    Play(Playing, << Idle(99, 4, Btc),
                     [Idle(8, 4, Btc) EXCEPT !.acts = << <<"move", <<CENTER_X, 200>> >>,
                                                         <<"click", 1>> >>] >>, 1)

\* As Idle with the boss at the top of its orbit, batches of seven.
North(frames) == [Idle(frames, 7, Btc) EXCEPT !.angle = "N"]

\* PEPE_KING has 10 hp left and a simple wave is on it; the score is 8035.
KingFalling == Play(Playing, << Defend(1091) >>, 1)

\* The second phase, BONK_BOSS has 20 hp left, and the only wave, which has
\* been hitting it since radius 134, is two frames from maxRadius.
BonkFalling ==
    Play(KingFalling, << Defend(786),
                         [North(21) EXCEPT !.acts = << <<"click", 1>> >>],
                         Idle(1, 7, Btc),
                         North(8) >>, 1)

\* BonkFalling 71 frames later: the boss fell to the last frame of the wave,
\* no wave is alive, and seven DOGE are one frame from the coin (hp 53).
LastStand == Play(BonkFalling, << North(2), Idle(69, 7, Btc) >>, 1)

\* A first phase in which the player spends on simple waves whatever the
\* score holds above 200, so that no boss appears.
Spender(frames) == [Idle(frames, 4, Sol) EXCEPT !.reach = 150, !.spend = Some(200)]

\* 5587 frames into such a game, once the player defends again: 81 batches
\* have brought spawnInterval down to 55.7, PEPE_KING has 20 hp left and the
\* wave of radius 74 is on it (score 8188, hp 91, phase 1).
LateKing == Play(Playing, << Spender(4800), Defend(787) >>, 1)

\* 378 frames of the defended game: score 1335, no boss yet, and the wave of
\* radius 62 is two frames from five BTC worth 100 each.
KingComing == Play(Playing, << Defend(378) >>, 1)

\* BTC entering from below, and a shield power-up offered 300 above the coin,
\* out of reach of the simple waves released at the centre.
South == [pick |-> 1, radius |-> 22, side |-> 2, speed |-> 4]
ShieldAbove == Some([type |-> "shield", x |-> CENTER_X, y |-> 25])

\* As Defend against batches of four from below, the shield on offer.
Ward(frames) == [Idle(frames, 4, South) EXCEPT !.reach = 150, !.powerUp = ShieldAbove]

\* 388 frames: the player has moved the pointer to (450, 200) and released a
\* simple wave there at frame 368; its ring is two frames from the shield
\* power-up, and four BTC are two frames from the coin (hp 100).
Shielding ==
    Play(Playing, << Ward(367),
                     [Idle(21, 4, South) EXCEPT !.powerUp = ShieldAbove,
                                                !.acts = << <<"move", <<CENTER_X, 200>> >>,
                                                            <<"click", 1>> >>] >>, 1)

\* 529 frames of the defended game: PEPE_KING, still above the screen, sends
\* its first two minions in the next frame.
Brood == Play(Playing, << Defend(529) >>, 1)

\* The defended game with the last wave held back until frame 1087:
\* PEPE_KING has 10 hp left under the ring of radius 122 while the projectile
\* it fired five frames ago is on its way to the coin.
Aloft ==
    Play(Playing, << Defend(1072), Idle(14, 5, Btc),
                     [Idle(19, 5, Btc) EXCEPT !.acts = << <<"click", 1>> >>] >>, 1)

\* Four BTC were destroyed in frame 109 and nothing since; after 228 frames
\* comboTimer is 1, and the ring of a second wave released at (450, 200) is
\* one frame from the next four BTC.
Lapse ==
    Play(Playing, << Idle(98, 4, Btc),
                     [Idle(128, 4, Btc) EXCEPT !.acts = << <<"move", <<CENTER_X, 200>> >>,
                                                          <<"click", 1>> >>],
                     [Idle(2, 4, Btc) EXCEPT !.acts = << <<"click", 1>> >>] >>, 1)

\* The game of Impact played by someone who released ten simple waves at
\* the start: score 0, the waves faded long ago, hp 10, four SOL two frames
\* from the coin.
Broke ==
    Play(Playing, << [Idle(159, 5, Btc) EXCEPT !.acts = [k \in 1..10 |-> <<"click", 1>>]],
                     Idle(80, 4, Btc), Idle(80, 4, Sol), Idle(59, 4, Btc) >>, 1)

\* The games the exploration starts from, each with the frames already
\* counted against MaxTicks.
Games ==
    { [w |-> Constructed, t |-> 3],
      [w |-> Spent, t |-> 2],
      [w |-> BeforeSpawn, t |-> 4],
      [w |-> Impact, t |-> 4],
      [w |-> Healing, t |-> 2],
      [w |-> BossFight, t |-> 4],
      [w |-> StrongFade, t |-> 2],
      [w |-> Grazing, t |-> 2],
      [w |-> KingFalling, t |-> 4],
      [w |-> BonkFalling, t |-> 3],
      [w |-> LastStand, t |-> 4],
      [w |-> LateKing, t |-> 4],
      [w |-> KingComing, t |-> 3],
      [w |-> Shielding, t |-> 3],
      [w |-> Brood, t |-> 3],
      [w |-> Aloft, t |-> 3],
      [w |-> Lapse, t |-> 4],
      [w |-> Broke, t |-> 3] }

Start(w) ==
    /\ state = w.state
    /\ gamePhase = w.gamePhase
    /\ leaderboard = w.leaderboard
    /\ storedHighScore = w.storedHighScore
    /\ lbCalls = w.lbCalls
    /\ removed = w.removed
    /\ ev = w.ev
    /\ loop = Mounted

Init == \E g \in Games : ticks = g.t /\ Start(g.w)

Login ==
    /\ gamePhase = "login"
    /\ Commit(handleLogin(World))
    /\ UNCHANGED ticks

StartGame ==
    /\ gamePhase = "start"
    /\ Commit(startGame(World))
    /\ UNCHANGED ticks

RestartGame ==
    /\ gamePhase \in {"gameover", "phasecomplete"}
    /\ Commit(restartGame(World))
    /\ UNCHANGED ticks

TogglePause ==
    /\ Commit(togglePause(World))
    /\ UNCHANGED ticks

MouseMove ==
    /\ \E pos \in MousePositions : Commit(handleMouseMove(World, pos))
    /\ UNCHANGED ticks

MouseDown ==
    /\ \E now \in PressTimes : Commit(Press(World, now))
    /\ UNCHANGED ticks

MouseUp ==
    /\ IF gamePhase = "playing" /\ state.mouseDownTime # NULL
       THEN /\ Len(state.waves) < MaxWaves
            /\ \E held \in HoldTimes : Commit(Release(World, state.mouseDownTime[1] + held))
       ELSE Commit(Drop(World))
    /\ UNCHANGED ticks

Tick ==
    /\ ticks < MaxTicks
    /\ ticks' = ticks + 1
    /\ \E rnd \in Draws(state) : Commit(gameLoop(World, rnd))

Next ==
    \/ Login
    \/ StartGame
    \/ RestartGame
    \/ TogglePause
    \/ MouseMove
    \/ MouseDown
    \/ MouseUp
    \/ Tick

Spec == Init /\ [][Next]_vars

---------------------------------------------------------------------------
(* The leaderboard on its own: calls of addScoreToLeaderboard with any     *)
(* name and score, on the empty store and on lists stored by earlier calls. *)

\* Distinct scores offered to the leaderboard.
MaxEntryScores == 2
\* Calls made in one behaviour.
MaxCalls == 3

EntryNames == {"Ana", "Bia"}
EntryScores == {100 * k : k \in 1..MaxEntryScores}

RECURSIVE Stored(_, _, _)
\* The list after n calls for Ana with score, made on players.
Stored(players, score, n) ==
    IF n = 0 THEN players
    ELSE Stored(addScoreToLeaderboard(players, "Ana", score), score, n - 1)

\* What earlier games have stored: hi entries of the highest score and lo of
\* the lowest, up to LeaderboardSize and beyond.
StoredLists ==
    { Stored(Stored(<<>>, 100 * MaxEntryScores, hi), 100, lo) :
        hi \in 0..LeaderboardSize, lo \in 0..LeaderboardSize }

LbInit ==
    \E players \in StoredLists :
        /\ ticks = 0
        /\ Start([Constructed EXCEPT !.leaderboard = players])

AddScore ==
    /\ lbCalls < MaxCalls
    /\ lbCalls' = lbCalls + 1
    /\ \E name \in EntryNames, score \in EntryScores :
          /\ leaderboard' = addScoreToLeaderboard(leaderboard, name, score)
          /\ ev' = [NoEvent EXCEPT !.op = "add", !.lbAdds = << score >>, !.name = name]
    /\ UNCHANGED <<state, gamePhase, storedHighScore, ticks, removed, loop>>

LbNext == AddScore

LbSpec == LbInit /\ [][LbNext]_vars

---------------------------------------------------------------------------
(* The frame callback with its throttle: every callback the browser runs,  *)
(* at the pace of the display, and the effect that starts the loop.        *)

FPS == 60
\* Timestamps are counted in thirds of a millisecond, so that 1000 / FPS ms
\* is a whole number of them.
FrameBudget == 3000 \div FPS
\* Time between two callbacks: a display at 120 Hz and one at 60 Hz.
FrameGaps == {FrameBudget \div 2, FrameBudget}
\* Handles given out by requestAnimationFrame in one behaviour.
MaxHandles == 6

requestAnimationFrame(l) ==
    [l EXCEPT !.issued = @ + 1, !.pending = @ \cup {l.issued + 1},
              !.animFrame = l.issued + 1, !.requests = @ + 1]

cancelAnimationFrame(l, handle) == [l EXCEPT !.pending = @ \ {handle}]

\* The throttle branch without its return: the callback goes on to the pass.
gameLoopAtNoReturn(w, l, timestamp, rnd) ==
    LET elapsed == timestamp - l.lastTime
        early == IF elapsed < FrameBudget THEN requestAnimationFrame(l) ELSE l
    IN  [ w |-> gameLoop(w, rnd),
          loop |-> requestAnimationFrame([early EXCEPT !.lastTime = timestamp,
                                                       !.passes = @ + 1]) ]

\* Lines 2116-2127 and 2580: the callback at timestamp, with the canvas of
\* line 2609 in place.
gameLoopAt(w, l, timestamp, rnd) ==
    LET elapsed == timestamp - l.lastTime
    IN  IF elapsed < FrameBudget
        THEN [ w |-> w, loop |-> requestAnimationFrame(l) ]
        ELSE [ w |-> gameLoop(w, rnd),
               loop |-> requestAnimationFrame([l EXCEPT !.lastTime = timestamp,
                                                        !.passes = @ + 1]) ]

\* The games the callbacks are followed from.
LoopGames == {Constructed, Playing, Impact, BossFight}

LoopInit == \E w \in LoopGames : ticks = 0 /\ Start(w)

\* The browser runs a pending callback.
Invoke ==
    /\ loop.issued < MaxHandles
    /\ \E handle \in loop.pending, gap \in FrameGaps, rnd \in Draws(state) :
          LET timestamp == loop.clock + gap
              l == [loop EXCEPT !.pending = @ \ {handle}, !.clock = timestamp,
                                !.requests = 0, !.passes = 0]
              r == gameLoopAt(World, l, timestamp, rnd)
          IN  /\ Store(r.w)
              /\ loop' = r.loop
              /\ ticks' = ticks + r.loop.passes

\* Lines 2593-2600 followed by lines 1475-2583: React cleans the effect up
\* and runs it again.
Remount ==
    /\ loop.issued < MaxHandles
    /\ loop' = requestAnimationFrame(
                  [cancelAnimationFrame(loop, loop.animFrame) EXCEPT !.requests = 0,
                                                                     !.passes = 0])
    /\ UNCHANGED <<state, gamePhase, leaderboard, storedHighScore, ticks, lbCalls,
                   removed, ev>>

LoopNext ==
    \/ Invoke
    \/ Remount
    \/ TogglePause
    \/ StartGame
    \/ Login

LoopSpec == LoopInit /\ [][LoopNext]_vars

---------------------------------------------------------------------------
(* The earlier version with two buttons (src/src/components/Game.tsx,      *)
(* lines 1767-3009): a left click releases a simple wave at the pointer, a *)
(* right click a strong one; one meteor is spawned at a time; there are no *)
(* power-ups, bosses or phases.  Its state is kept in state and gamePhase. *)

EarlyStartInterval == 120
EarlySpawnFloor == 40
EarlySimpleMaxRadius == 90
EarlyStrongMaxRadius == 160
EarlySimpleSpeed == 5
EarlyStrongSpeed == 7
EarlySimpleThickness == 14
EarlyStrongThickness == 22

COIN_TYPES == <<"BTC", "ETH", "SOL">>

\* Line 2537.
EarlyPoints(type) == IF type = "BTC" THEN 300 ELSE IF type = "ETH" THEN 200 ELSE 150

\* The object of lines 2185-2204 and of resetState (lines 2208-2230), without
\* the fields that only drawing reads; spawnInterval in tenths.
EarlyNewState(mouseX, mouseY) ==
    [ score |-> 0, hp |-> StartHp, meteors |-> <<>>, waves |-> <<>>,
      mouseX |-> mouseX, mouseY |-> mouseY, nextMeteorId |-> 0, nextWaveId |-> 0,
      spawnTimer |-> 0, spawnInterval |-> 10 * EarlyStartInterval, spawnDrift |-> FALSE,
      gameOver |-> FALSE, paused |-> FALSE ]

\* fireWave without the test of the score.
EarlyFireWaveOnCredit(s, mx, my, strong) ==
    [s EXCEPT !.score = @ - WaveCost(strong),
              !.waves = Append(@, [ id |-> s.nextWaveId, x |-> mx, y |-> my, radius |-> 0,
                                    maxRadius |-> IF strong THEN EarlyStrongMaxRadius
                                                  ELSE EarlySimpleMaxRadius,
                                    strong |-> strong ]),
              !.nextWaveId = @ + 1]

\* fireWave (lines 2233-2251).
EarlyFireWave(s, mx, my, strong) ==
    IF s.score < WaveCost(strong) THEN s
    ELSE [s EXCEPT !.score = @ - WaveCost(strong),
                   !.waves = Append(@, [ id |-> s.nextWaveId, x |-> mx, y |-> my, radius |-> 0,
                                         maxRadius |-> IF strong THEN EarlyStrongMaxRadius
                                                       ELSE EarlySimpleMaxRadius,
                                         strong |-> strong ]),
                   !.nextWaveId = @ + 1]

\* handleClick (lines 2254-2276); button 2 is the right button.
EarlyHandleClick(g, pos, button) ==
    IF g.gamePhase = "gameover"
    THEN [ state |-> EarlyNewState(g.state.mouseX, g.state.mouseY), gamePhase |-> "playing" ]
    ELSE IF g.gamePhase # "playing" THEN g
         ELSE [g EXCEPT !.state = EarlyFireWave(g.state, pos[1], pos[2], button = 2)]

\* handleContextMenu (lines 2278-2290).
EarlyHandleContextMenu(g, pos) ==
    IF g.gamePhase # "playing" THEN g
    ELSE [g EXCEPT !.state = EarlyFireWave(g.state, pos[1], pos[2], TRUE)]

\* togglePause (lines 2293-2306).
EarlyTogglePause(g) ==
    IF g.gamePhase = "playing"
    THEN [g EXCEPT !.gamePhase = "paused", !.state.paused = TRUE]
    ELSE IF g.gamePhase = "paused"
         THEN [g EXCEPT !.gamePhase = "playing", !.state.paused = FALSE]
         ELSE g

\* startGame (lines 2309-2314).
EarlyStartGame(g) ==
    [ state |-> EarlyNewState(g.state.mouseX, g.state.mouseY), gamePhase |-> "playing" ]

\* The draws spawnMeteor (lines 2035-2060) can make: one of three types,
\* radius = 22 + random * 14, one of four sides, speed = 1.2 + random * 1.4.
EarlyDrawOK(d) ==
    /\ d.pick \in 1..Len(COIN_TYPES)
    /\ d.radius \in 22..35
    /\ d.side \in 0..3
    /\ 12 <= 10 * d.speed /\ 10 * d.speed < 26

\* The meteor enters at the middle of its side, as in spawnMeteor above.
EarlySpawnMeteor(id, d) ==
    LET x == CASE d.side = 0 -> CENTER_X [] d.side = 1 -> WIDTH + d.radius
               [] d.side = 2 -> CENTER_X [] OTHER -> -d.radius
        y == CASE d.side = 0 -> -d.radius [] d.side = 1 -> CENTER_Y
               [] d.side = 2 -> HEIGHT + d.radius [] OTHER -> CENTER_Y
    IN  [ id |-> id, type |-> COIN_TYPES[d.pick], x |-> x, y |-> y,
          vx |-> Sign(CENTER_X - x) * d.speed, vy |-> Sign(CENTER_Y - y) * d.speed,
          radius |-> d.radius ]

\* Lines 2774-2779.
EarlySpawnStep(s, d) ==
    LET s1 == [s EXCEPT !.spawnTimer = @ + 1]
    IN  IF ~SpawnDue(s1) THEN s1
        ELSE LET lower == s1.spawnInterval - 3
             IN  [s1 EXCEPT !.spawnTimer = 0,
                            !.meteors = Append(@, EarlySpawnMeteor(s1.nextMeteorId, d)),
                            !.nextMeteorId = @ + 1,
                            !.spawnInterval = Max(10 * EarlySpawnFloor, lower),
                            !.spawnDrift = lower >= 10 * EarlySpawnFloor]

\* Lines 2782-2805, for the meteor at index i.
EarlyMeteorStep(g, i) ==
    LET m == g.state.meteors[i]
        moved == [m EXCEPT !.x = @ + m.vx, !.y = @ + m.vy]
    IN  IF Within(Dist2(moved.x, moved.y, CENTER_X, CENTER_Y), SUI_RADIUS + m.radius - CoinSlack)
        THEN LET hp == Max(0, g.state.hp - MeteorDamage)
             IN  [g EXCEPT !.state.meteors = Splice(@, i),
                           !.state.hp = hp,
                           !.state.gameOver = IF hp <= 0 THEN TRUE ELSE @,
                           !.gamePhase = IF hp <= 0 THEN "gameover" ELSE @]
        ELSE [g EXCEPT !.state.meteors[i] = moved]

RECURSIVE EarlyMeteorLoop(_, _)
EarlyMeteorLoop(g, i) == IF i = 0 THEN g ELSE EarlyMeteorLoop(EarlyMeteorStep(g, i), i - 1)

\* Lines 2525-2544: the band test of the ring wv on the meteors j..1.
RECURSIVE EarlyHitLoop(_, _, _)
EarlyHitLoop(s, wv, j) ==
    IF j = 0 THEN s
    ELSE LET m == s.meteors[j]
             reach == (IF wv.strong THEN EarlyStrongThickness ELSE EarlySimpleThickness)
                         + m.radius
         IN  IF InBand(Dist2(m.x, m.y, wv.x, wv.y), wv.radius, reach)
             THEN EarlyHitLoop([s EXCEPT !.score = @ + EarlyPoints(m.type),
                                         !.meteors = Splice(@, j)], wv, j - 1)
             ELSE EarlyHitLoop(s, wv, j - 1)

\* drawWaves (lines 2513-2567), for the waves i..1.
RECURSIVE EarlyDrawWaves(_, _)
EarlyDrawWaves(s, i) ==
    IF i = 0 THEN s
    ELSE LET wv == [s.waves[i] EXCEPT
                       !.radius = @ + (IF s.waves[i].strong THEN EarlyStrongSpeed
                                       ELSE EarlySimpleSpeed)]
         IN  IF wv.radius >= wv.maxRadius
             THEN EarlyDrawWaves([s EXCEPT !.waves = Splice(@, i)], i - 1)
             ELSE EarlyDrawWaves(EarlyHitLoop([s EXCEPT !.waves[i] = wv], wv, Len(s.meteors)),
                                 i - 1)

\* gameLoop (lines 2754-2857) for a frame that is executed; phase is read
\* once, at line 2768.
EarlyGameLoop(g, d) ==
    IF g.gamePhase # "playing" THEN g
    ELSE LET s1 == EarlySpawnStep(g.state, d)
             g1 == EarlyMeteorLoop([g EXCEPT !.state = s1], Len(s1.meteors))
         IN  [g1 EXCEPT !.state = EarlyDrawWaves(g1.state, Len(g1.state.waves))]

EarlyDraws ==
    { d \in { [pick |-> 1, radius |-> 22, side |-> 0, speed |-> 2],
              [pick |-> 3, radius |-> 30, side |-> 2, speed |-> 2] } : EarlyDrawOK(d) }

EarlyBtc == [pick |-> 1, radius |-> 22, side |-> 0, speed |-> 2]

RECURSIVE EarlyFrames(_, _, _)
\* n frames of a game left alone, n >= 1, every meteor drawn as d; the
\* frames after the game has ended change nothing.
EarlyFrames(g, d, n) ==
    IF n = 1 THEN EarlyGameLoop(g, d)
    ELSE LET half == EarlyFrames(g, d, n \div 2)
         IN  IF half.gamePhase # "playing" THEN half
             ELSE EarlyFrames(half, d, n - (n \div 2))

\* The component as constructed, showing the start screen.
EarlyConstructed == [ state |-> EarlyNewState(CENTER_X, CENTER_Y), gamePhase |-> "start" ]

\* One frame before the first meteor.
EarlyBeforeSpawn == EarlyFrames(EarlyStartGame(EarlyConstructed), EarlyBtc, 119)

\* Nine meteors have hit the coin (hp 10) and the tenth is two frames away.
EarlyDoomed == EarlyFrames(EarlyStartGame(EarlyConstructed), EarlyBtc, 1329)

EarlyGames ==
    { [w |-> EarlyConstructed, t |-> 1],
      [w |-> EarlyBeforeSpawn, t |-> 1],
      [w |-> EarlyDoomed, t |-> 1] }

EarlyInit ==
    \E g \in EarlyGames :
        /\ ticks = g.t
        /\ state = g.w.state
        /\ gamePhase = g.w.gamePhase
        /\ leaderboard = <<>>
        /\ storedHighScore = 0
        /\ lbCalls = 0
        /\ removed = EmptyBag
        /\ ev = NoEvent
        /\ loop = Mounted

EarlyGame == [ state |-> state, gamePhase |-> gamePhase ]

EarlyStore(g, op) ==
    /\ state' = g.state
    /\ gamePhase' = g.gamePhase
    /\ ev' = [NoEvent EXCEPT !.op = op]
    /\ UNCHANGED <<leaderboard, storedHighScore, lbCalls, removed, loop>>

EarlyStart ==
    /\ gamePhase = "start"
    /\ EarlyStore(EarlyStartGame(EarlyGame), "start")
    /\ UNCHANGED ticks

EarlyClick ==
    /\ Len(state.waves) < MaxWaves
    /\ \E pos \in MousePositions, button \in {0, 2} :
          EarlyStore(EarlyHandleClick(EarlyGame, pos, button), "click")
    /\ UNCHANGED ticks

EarlyContextMenu ==
    /\ Len(state.waves) < MaxWaves
    /\ \E pos \in MousePositions : EarlyStore(EarlyHandleContextMenu(EarlyGame, pos), "contextmenu")
    /\ UNCHANGED ticks

EarlyPause ==
    /\ EarlyStore(EarlyTogglePause(EarlyGame), "pause")
    /\ UNCHANGED ticks

EarlyMouseMove ==
    /\ \E pos \in MousePositions :
          EarlyStore([EarlyGame EXCEPT !.state.mouseX = pos[1], !.state.mouseY = pos[2]], "move")
    /\ UNCHANGED ticks

EarlyTick ==
    /\ ticks < MaxTicks
    /\ ticks' = ticks + 1
    /\ \E d \in EarlyDraws : EarlyStore(EarlyGameLoop(EarlyGame, d), "tick")

EarlyNext ==
    \/ EarlyStart
    \/ EarlyClick
    \/ EarlyContextMenu
    \/ EarlyPause
    \/ EarlyMouseMove
    \/ EarlyTick

EarlySpec == EarlyInit /\ [][EarlyNext]_vars

---------------------------------------------------------------------------
(* Properties.                                                             *)

\* A frame of a game that was playing when the frame began.
PlayingTick == ticks' = ticks + 1 /\ gamePhase = "playing"

\* A left-button release that reaches fireWave.
ReleaseStep ==
    /\ gamePhase = "playing" /\ gamePhase' = "playing"
    /\ state.mouseDownTime # NULL /\ state'.mouseDownTime = NULL
    /\ ev'.op = "release"

\* C1: a release whose wave costs more than the score (10 simple, 30 strong)
\* leaves score, waves and nextWaveId as they were; a strong request is not
\* turned into a simple wave.
FireWaveRefused ==
    [][ (ReleaseStep /\ state.score < (IF ev'.strong THEN 30 ELSE 10))
        => /\ state'.score = state.score
           /\ state'.waves = state.waves
           /\ state'.nextWaveId = state.nextWaveId ]_vars

\* A strong release with a score in 10..29 has been refused.
StrongRefused ==
    /\ ev.op = "release" /\ ev.strong
    /\ ev.score0 \in 10..29
    /\ state.score = ev.score0

\* C2: the score is never negative.
ScoreNonNegative == state.score >= 0

\* A release has been attempted with nothing left to spend.
ReleasedAtZero == ev.op = "release" /\ ev.score0 = 0 /\ state.score = 0

\* C3: a playing frame that leaves the coin with hp 0 leaves the game in
\* phase gameover.
CoinDeathEndsGame ==
    (ev.op = "tick" /\ ev.phase0 = "playing" /\ state.hp = 0) => gamePhase = "gameover"

\* C4: the frame that ends a game calls addScoreToLeaderboard once, with the
\* score the frame ends with.
OneEntryPerGame ==
    (ev.op = "tick" /\ ev.phase0 = "playing" /\ gamePhase \in {"gameover", "phasecomplete"})
        => ev.lbAdds = << state.score >> /\ lbCalls = 1

\* C5: 0 <= hp <= 100 in every state.
HpBounds == state.hp >= 0 /\ state.hp <= 100

\* A wave has destroyed a meteor with the heal power-up active and hp 100.
HealedAtFullHp ==
    /\ ev.op = "tick" /\ ev.kills # <<>>
    /\ HasPowerUp(state, "heal")
    /\ state.hp = 100

RECURSIVE FloorSqrtIn(_, _, _)
\* The largest f in lo..hi with f * f <= n.
FloorSqrtIn(n, lo, hi) ==
    IF lo = hi THEN lo
    ELSE LET mid == (lo + hi + 1) \div 2
         IN  IF mid * mid <= n THEN FloorSqrtIn(n, mid, hi) ELSE FloorSqrtIn(n, lo, mid - 1)

FloorSqrt(n) == FloorSqrtIn(n, 0, 2048)

\* |sqrt(d2) - r| < reach, decided on the integer part of the root.
RingBand(d2, r, reach) ==
    LET f == FloorSqrt(d2)
    IN  /\ f < r + reach
        /\ \/ f > r - reach
           \/ f = r - reach /\ d2 > f * f

\* |d - r| < t + meteor.radius for a wave and a meteor, t = 20 if strong else 12.
InRing(wv, m) ==
    RingBand(Dist2(m.x, m.y, wv.x, wv.y), wv.radius, (IF wv.strong THEN 20 ELSE 12) + m.radius)

\* A meteor after the frame's move.
Moved(m) == [m EXCEPT !.x = @ + m.vx, !.y = @ + m.vy]

\* C6: in a playing frame a wave that stays alive removes a meteor exactly
\* when |d - r| < t + meteor.radius; a meteor that neither the coin nor the
\* shield took and that is in no live wave's band stays, moved by its own
\* velocity only.
RingBandHit ==
    [][ PlayingTick =>
        /\ \A k \in 1..Len(ev'.kills) :
              LET e == ev'.kills[k]
              IN  /\ RingBand(e.d2, e.radius, (IF e.strong THEN 20 ELSE 12) + e.mradius)
                  /\ \E i \in 1..Len(state'.waves) :
                        /\ state'.waves[i].id = e.wave
                        /\ state'.waves[i].radius = e.radius
                        /\ state'.waves[i].strong = e.strong
                        /\ \A j \in 1..Len(state.meteors) :
                              state.meteors[j].id = e.meteor
                                  => /\ InRing(state'.waves[i], Moved(state.meteors[j]))
                                     /\ e.mradius = state.meteors[j].radius
                  /\ \A j \in 1..Len(state'.meteors) : state'.meteors[j].id # e.meteor
        /\ \A j \in 1..Len(state'.meteors) : \A i \in 1..Len(state'.waves) :
              ~InRing(state'.waves[i], state'.meteors[j])
        /\ \A j \in 1..Len(state.meteors) :
              LET m == Moved(state.meteors[j])
                  taken == \/ \E k \in 1..Len(ev'.coinHits) : ev'.coinHits[k] = m.id
                           \/ \E k \in 1..Len(ev'.shieldHits) : ev'.shieldHits[k] = m.id
                  inBand == \E i \in 1..Len(state'.waves) : InRing(state'.waves[i], m)
              IN  (~taken /\ ~inBand) => \E k \in 1..Len(state'.meteors) : state'.meteors[k] = m
      ]_vars

\* A frame in which a live wave destroyed meteors and spared others.
KilledAndSpared ==
    /\ ev.op = "tick" /\ ev.kills # <<>>
    /\ state.meteors # <<>>
    /\ \E i \in 1..Len(state.waves) : state.waves[i].id = ev.kills[1].wave

\* C7: in a playing frame every wave grows by 9 (strong) or 6 (simple); it is
\* removed exactly when the grown radius is >= maxRadius, and otherwise
\* stays, whatever it hit.
WaveExpansion ==
    [][ PlayingTick =>
        /\ \A i \in 1..Len(state.waves) :
              LET wv == state.waves[i]
                  r == wv.radius + (IF wv.strong THEN 9 ELSE 6)
                  after == {k \in 1..Len(state'.waves) : state'.waves[k].id = wv.id}
              IN  IF r >= wv.maxRadius THEN after = {}
                  ELSE /\ Cardinality(after) = 1
                       /\ \A k \in after : state'.waves[k] = [wv EXCEPT !.radius = r]
        /\ \A k \in 1..Len(state'.waves) :
              \E i \in 1..Len(state.waves) : state.waves[i].id = state'.waves[k].id
      ]_vars

\* A frame removed the outer ring of a strong wave and grew the others.
RingFaded ==
    /\ ev.op = "tick" /\ ev.expired # <<>>
    /\ \E i \in 1..Len(state.waves) : state.waves[i].strong

\* C8: every meteor id leaves the collection at most once, by one cause
\* (wave, coin or shield), is gone once it has left, and is paid for at most
\* once in a frame.
DestroyedOnce ==
    /\ \A e \in BagToSet(removed) :
          /\ CopiesIn(e, removed) = 1
          /\ \A by \in {"wave", "coin", "shield"} \ {e.by} :
                ~BagIn([id |-> e.id, by |-> by], removed)
          /\ \A j \in 1..Len(state.meteors) : state.meteors[j].id # e.id
    /\ \A a \in 1..Len(ev.kills) : \A b \in 1..Len(ev.kills) :
          a # b => ev.kills[a].meteor # ev.kills[b].meteor

\* The last frame of the window has run, with waves and meteors alive, after a wave
\* destroyed a meteor.
SurvivedDestruction ==
    /\ ticks = MaxTicks
    /\ ev.op = "tick" /\ ev.phase0 = "playing" /\ ev.kills = <<>>
    /\ state.waves # <<>> /\ state.meteors # <<>>
    /\ \E e \in BagToSet(removed) : e.by = "wave"

\* What the pause is said to freeze.
Frozen(s) ==
    << s.score, s.hp, s.meteors, s.waves, s.spawnTimer, s.spawnInterval, s.spawnDrift,
       s.powerUpTimer, s.activePowerUps, s.combo, s.comboTimer, s.boss, s.bossProjectiles >>

\* C9: pausing, every step taken while paused (frames included) and resuming
\* leave score, hp, meteors, waves, the timers, the active power-ups, the
\* combo, the boss and its projectiles unchanged.
PauseFreezes ==
    [][ (gamePhase = "paused" \/ gamePhase' = "paused") => Frozen(state') = Frozen(state) ]_vars

\* A frame has run while paused, with meteors and waves on the field.
PausedTick ==
    /\ gamePhase = "paused"
    /\ ev.op = "tick" /\ ev.phase0 = "paused"
    /\ state.meteors # <<>> /\ state.waves # <<>>

\* C10: a kill with no multiplier power-up active adds exactly COIN_SCORE of
\* the meteor's kind to the score, the first kill of a game included.
KillReward ==
    \A k \in 1..Len(ev.kills) :
        ~ev.kills[k].multiplier => ev.kills[k].gain = COIN_SCORE(ev.kills[k].type)

\* The waves a step has appended to state.waves.
NewWaves == SubSeq(state'.waves, Len(state.waves) + 1, Len(state'.waves))

\* C11: a release during playing with a recorded press time is strong if and
\* only if the button was held for at least 2000 ms: held for 2000 ms or more
\* (and 30 points to spend) it puts three strong rings at the coin centre,
\* held for less (and 10 points to spend) one simple wave at the pointer
\* position of the moment of the release.
HoldThreshold ==
    [][ ReleaseStep =>
          /\ SubSeq(state'.waves, 1, Len(state.waves)) = state.waves
          /\ (ev'.held >= 2000 /\ state.score >= 30)
                => /\ Len(NewWaves) = 3
                   /\ state'.score = state.score - 30
                   /\ \A k \in 1..3 :
                         NewWaves[k].strong /\ NewWaves[k].x = 450 /\ NewWaves[k].y = 325
          /\ (ev'.held < 2000 /\ state.score >= 10)
                => /\ Len(NewWaves) = 1
                   /\ state'.score = state.score - 10
                   /\ ~NewWaves[1].strong
                   /\ NewWaves[1].x = state.mouseX /\ NewWaves[1].y = state.mouseY ]_vars

\* The button was held for exactly 2000 ms with the pointer away from the
\* coin, and the rings of a strong wave stand at the coin centre.
HeldToThreshold ==
    /\ ev.op = "release" /\ ev.held = 2000
    /\ state.mouseY = 200
    /\ state.score = ev.score0 - 30
    /\ Len(state.waves) >= 3
    /\ state.waves[Len(state.waves)].strong
    /\ state.waves[Len(state.waves)].y = 325

\* C12: at the end of a playing frame that leaves the game playing with no
\* boss defeated and the score at the phase's boss threshold or above (1400
\* in phase 1, 2900 in phase 2), a boss is on the field.
BossSpawned ==
    ( /\ ev.op = "tick" /\ ev.phase0 = "playing" /\ gamePhase = "playing"
      /\ ~state.bossDefeated
      /\ state.score >= (IF state.currentPhase = 1 THEN 1400 ELSE 2900) )
        => state.boss # NULL

\* C13: a playing frame that ends in phase 2 with the boss defeated and a
\* score of 3000 or more ends in phase phasecomplete.
VictoryAtOnce ==
    [][ ( /\ PlayingTick
          /\ state'.currentPhase = 2 /\ state'.bossDefeated
          /\ state'.score >= 3000 )
            => gamePhase' = "phasecomplete" ]_vars

\* C14: once a frame has set the phase to gameover it does not set it to
\* phasecomplete, and once it has set it to phasecomplete it does not set it
\* to gameover.
TerminalAbsorbing ==
    \A i \in 1..Len(ev.phases) : \A j \in 1..Len(ev.phases) :
        i < j => ev.phases[j] = ev.phases[i]

\* C15: in a playing frame spawnInterval does not increase, and it stays at
\* or above the floor of the phase (40 in phase 1, 30 in phase 2).
SpawnRamp ==
    [][ PlayingTick =>
          /\ state'.spawnInterval <= state.spawnInterval
          /\ state'.spawnInterval >= (IF state'.currentPhase = 1 THEN 400 ELSE 300) ]_vars

\* C16: from the pause that cancels a recorded press until the next recorded
\* press, no step of the game fires a wave or lowers the score, be the button
\* released while paused or after the game has resumed.
PauseCancels ==
    [][ (ev.charge = "cancelled" /\ gamePhase \in {"playing", "paused"})
          => /\ state'.nextWaveId = state.nextWaveId
             /\ state'.score >= state.score ]_vars

\* The button was pressed, the game was paused and resumed, and the release
\* that followed fired nothing.
ReleasedAfterResume ==
    /\ gamePhase = "playing"
    /\ ev.charge = "dropped"
    /\ state.mouseDownTime = NULL
    /\ state.waves = <<>>

\* A step of startGame or restartGame.
ResetStep ==
    /\ gamePhase \in {"start", "gameover", "phasecomplete"}
    /\ gamePhase' = "playing"

RECURSIVE SumOf(_, _)
\* The sum of field f over the records of seq.
SumOf(seq, f) == IF seq = <<>> THEN 0 ELSE seq[1][f] + SumOf(Tail(seq), f)

\* The wave hit of the frame brought the boss to 0 hp or less.
Defeated == ev'.bossHits # <<>> /\ ev'.bossHits[1].left <= 0

\* C18: in a playing frame with a boss in play at most one wave damages it,
\* however many reach it; the boss is defeated exactly when that hit leaves
\* it 0 hp or less: it is then gone, bossDefeated is set (until the phase
\* transition of the same frame clears it) and the score has received the
\* bonus of 500 for PEPE_KING or 1000 for BONK_BOSS once, on top of the
\* damage and the kills of the frame; otherwise the same boss stays with the
\* hp left and no bonus is given.
BossDefeat ==
    [][ (PlayingTick /\ BossActive(state)) =>
          /\ Len(ev'.bossHits) <= 1
          /\ state'.score = state.score + SumOf(ev'.kills, "gain") + SumOf(ev'.bossHits, "damage")
                              + (IF Defeated
                                 THEN (IF state.boss[1].type = "PEPE_KING" THEN 500 ELSE 1000)
                                 ELSE 0)
          /\ Defeated => /\ ev'.bossHits[1].left = state.boss[1].hp - ev'.bossHits[1].damage
                         /\ state'.bossDefeated \/ state'.currentPhase > state.currentPhase
                            \/ gamePhase' = "phasecomplete"
                         /\ state'.boss # NULL => state'.boss[1].id # state.boss[1].id
          /\ ~Defeated => /\ state'.boss # NULL /\ ~state'.bossDefeated
                          /\ state'.boss[1].id = state.boss[1].id
                          /\ state'.boss[1].hp = state.boss[1].hp - SumOf(ev'.bossHits, "damage")
                          /\ state'.boss[1].hp > 0 ]_vars

\* Two waves held the boss in the frame that defeated it.
DefeatedUnderTwoWaves ==
    /\ ev.op = "tick" /\ Cardinality(ev.overlap) >= 2
    /\ Len(ev.bossHits) = 1 /\ ev.bossHits[1].left <= 0

\* The kinds of the second phase.
MemeKinds == {"DOGE", "SHIB", "BONK", "WIF"}

\* C19: currentPhase goes from 1 to 2 only in a playing frame in which
\* bossDefeated holds (from before or by the defeat of that frame) and that
\* ends with score >= 1500 and bossDefeated cleared; it goes back to 1 only
\* by a restart; every meteor that a frame begun in phase 2 spawns, killed in
\* that frame or not, is DOGE, SHIB, BONK or WIF.
PhaseGuard ==
    [][ /\ state'.currentPhase # state.currentPhase
             => \/ ResetStep /\ state'.currentPhase = 1
                \/ /\ PlayingTick
                   /\ state.currentPhase = 1 /\ state'.currentPhase = 2
                   /\ state.bossDefeated \/ Defeated
                   /\ state'.score >= 1500
                   /\ ~state'.bossDefeated
        /\ (PlayingTick /\ state.currentPhase = 2)
             => /\ \A i \in 1..Len(state'.meteors) :
                      state'.meteors[i].id >= state.nextMeteorId
                          => state'.meteors[i].type \in MemeKinds
                /\ \A k \in 1..Len(ev'.kills) :
                      ev'.kills[k].meteor >= state.nextMeteorId
                          => ev'.kills[k].type \in MemeKinds ]_vars

\* The frame that defeated PEPE_KING moved the game to phase 2.
MovedToPhase2 ==
    /\ ev.op = "tick" /\ gamePhase = "playing"
    /\ Len(ev.bossHits) = 1 /\ ev.bossHits[1].type = "PEPE_KING" /\ ev.bossHits[1].left <= 0
    /\ state.currentPhase = 2 /\ ~state.bossDefeated
    /\ state.score >= 1500

\* C20: in a playing frame whose meteor loop runs with a shield active, every
\* meteor that its move brings within SUI_RADIUS + 30 + radius of the coin
\* centre is removed by the shield and by nothing else, and no other is; no
\* meteor reaches the coin's own test, so hp does not drop unless a boss
\* projectile lands, and the score changes by the kills and boss hits only.
ShieldFirst ==
    [][ (PlayingTick /\ HasPowerUp(state', "shield")) =>
          /\ ev'.coinHits = <<>>
          /\ ev'.projHits = <<>> => state'.hp >= state.hp
          /\ state'.score = state.score + SumOf(ev'.kills, "gain") + SumOf(ev'.bossHits, "damage")
                              + (IF Defeated
                                 THEN (IF ev'.bossHits[1].type = "PEPE_KING" THEN 500 ELSE 1000)
                                 ELSE 0)
          /\ \A i \in 1..Len(state.meteors) :
                LET m == state.meteors[i]
                    dx == m.x + m.vx - 450
                    dy == m.y + m.vy - 325
                    inside == dx * dx + dy * dy < (55 + 30 + m.radius) * (55 + 30 + m.radius)
                IN  /\ inside <=> \E k \in 1..Len(ev'.shieldHits) : ev'.shieldHits[k] = m.id
                    /\ inside => /\ \A j \in 1..Len(state'.meteors) : state'.meteors[j].id # m.id
                                 /\ \A k \in 1..Len(ev'.kills) : ev'.kills[k].meteor # m.id ]_vars

\* The shield, collected in this frame, took four meteors that were within
\* the coin's own reach; hp is still 100.
ShieldPreempted ==
    /\ ev.op = "tick" /\ gamePhase = "playing"
    /\ HasPowerUp(state, "shield")
    /\ Len(ev.spared) = 4 /\ ev.shieldHits = ev.spared
    /\ ev.coinHits = <<>>
    /\ state.hp = 100 /\ state.score = ev.score0

\* C21: every call of addScoreToLeaderboard leaves at most 10 entries in
\* non-increasing order of score, and a call made on a full list with a score
\* lower than or equal to its lowest entry leaves the list as it was.
LeaderboardShape ==
    [][ /\ Len(leaderboard') <= 10
        /\ \A k \in 1..(Len(leaderboard') - 1) :
              leaderboard'[k].score >= leaderboard'[k + 1].score
        /\ (Len(leaderboard) = 10 /\ ev'.lbAdds[1] <= leaderboard[10].score)
              => leaderboard' = leaderboard ]_vars

\* Ten entries of Ana, and the score of the lowest has just been offered
\* under another name.
TieNotKept ==
    /\ ev.op = "add" /\ ev.name = "Bia"
    /\ Len(leaderboard) = 10
    /\ \A k \in 1..10 : leaderboard[k].name = "Ana"
    /\ leaderboard[1].score > leaderboard[10].score
    /\ ev.lbAdds = << leaderboard[10].score >>

\* C22: a wave damages the boss once over its lifetime: the wave that hit
\* the boss in one frame does not hit it again in the next.
OncePerWave ==
    [][ (PlayingTick /\ ev.op = "tick" /\ ev.bossHits # <<>> /\ ev'.bossHits # <<>>)
          => ev'.bossHits[1].wave # ev.bossHits[1].wave ]_vars

\* C23: when two or more live waves hold the boss in their band in the same
\* frame, exactly one of them damages it, and it is the first of them in
\* array order, the one with the lowest id.
LowestWins ==
    [][ (PlayingTick /\ Cardinality(ev'.overlap) >= 2)
          => /\ Len(ev'.bossHits) = 1
             /\ \A id \in ev'.overlap : ev'.bossHits[1].wave <= id ]_vars

\* C24: every meteor is on its way to the coin: a meteor that a playing frame
\* leaves in the collection is nearer to the coin centre after the frame
\* than before, so that it is removed in the end, by the coin if by nothing
\* else.
MeteorsApproach ==
    [][ PlayingTick =>
          \A i \in 1..Len(state.meteors) : \A j \in 1..Len(state'.meteors) :
              state'.meteors[j].id = state.meteors[i].id
                  => Dist2(state'.meteors[j].x, state'.meteors[j].y, CENTER_X, CENTER_Y)
                       < Dist2(state.meteors[i].x, state.meteors[i].y, CENTER_X, CENTER_Y) ]_vars

\* C25: in every playing frame every boss projectile advances by its
\* velocity; it leaves the collection in that frame exactly when it hits the
\* coin or passes the screen margin.
ProjectilesAdvance ==
    [][ PlayingTick =>
          \A i \in 1..Len(state.bossProjectiles) :
              LET p == state.bossProjectiles[i]
                  q == [p EXCEPT !.x = @ + p.vx, !.y = @ + p.vy]
                  kept == \E j \in 1..Len(state'.bossProjectiles) :
                              state'.bossProjectiles[j].id = p.id
              IN  /\ kept => \E j \in 1..Len(state'.bossProjectiles) :
                                  state'.bossProjectiles[j] = q
                  /\ ~kept => \/ \E k \in 1..Len(ev'.projHits) : ev'.projHits[k] = p.id
                              \/ OffScreen(q) ]_vars

\* C26: every frame callback requests exactly one next frame; a callback less
\* than 1000 / 60 ms after the last executed frame changes nothing of the game
\* and leaves lastTime alone, any other callback makes exactly one pass; at
\* most one callback is pending at any time.
FrameThrottle ==
    [][ /\ Cardinality(loop'.pending) <= 1
        /\ loop'.clock # loop.clock
              => /\ loop'.requests = 1
                 /\ IF loop'.clock - loop.lastTime < FrameBudget
                    THEN /\ loop'.passes = 0
                         /\ loop'.lastTime = loop.lastTime
                         /\ UNCHANGED <<state, gamePhase, leaderboard, storedHighScore,
                                        lbCalls, removed, ticks>>
                    ELSE /\ loop'.passes = 1
                         /\ loop'.lastTime = loop'.clock
                         /\ ticks' = ticks + 1 ]_vars

\* A callback of a game in progress came too early and was put off; the
\* one before it had made a pass.
Throttled ==
    /\ gamePhase = "playing"
    /\ ticks >= 1
    /\ loop.requests = 1
    /\ loop.passes = 0
    /\ loop.clock - loop.lastTime = FrameBudget \div 2
    /\ loop.pending = {loop.animFrame}

\* C27: in a playing frame combo grows by one for each meteor a wave destroys
\* in it, a frame without a kill leaves combo alone unless it is the 120th
\* frame since the last kill, which resets it to 0, and no other step of a
\* game in progress changes combo; combo = 0 exactly when comboTimer = 0.
ComboRule ==
    [][ /\ PlayingTick
            => /\ ev'.kills # <<>> => state'.combo = state.combo + Len(ev'.kills)
               /\ ev'.kills = <<>>
                     => state'.combo = IF state.comboTimer = 1 THEN 0 ELSE state.combo
        /\ (~PlayingTick /\ gamePhase \in {"playing", "paused"}
                         /\ gamePhase' \in {"playing", "paused"})
            => state'.combo = state.combo
        /\ state'.combo = 0 <=> state'.comboTimer = 0 ]_vars

\* A boss that was not there when the step began.
Spawned ==
    /\ state'.boss # NULL
    /\ state.boss # NULL => state'.boss[1].id # state.boss[1].id

\* C28: a boss appears only in a playing frame, PEPE_KING in phase 1 and
\* BONK_BOSS in phase 2; when it appears no other boss is active (a boss
\* that began the frame was defeated in it) and the boss of the phase it
\* appears in has not been spawned before: as long as the game stays in one
\* phase, a boss once spawned is either active or recorded as defeated, and
\* a frame that begins with either spawns none for that phase.
OneBossPerPhase ==
    [][ /\ Spawned
            => /\ PlayingTick
               /\ state'.boss[1].type = "PEPE_KING"
                     => state.currentPhase = 1 /\ state'.currentPhase = 1
               /\ state'.boss[1].type = "BONK_BOSS" => state'.currentPhase = 2
               /\ state'.boss[1].type \in {"PEPE_KING", "BONK_BOSS"}
               /\ state.boss # NULL => Defeated
               /\ (state.boss # NULL \/ state.bossDefeated)
                     => state'.currentPhase # state.currentPhase
        /\ (/\ gamePhase \in {"playing", "paused"}
            /\ state'.currentPhase = state.currentPhase
            /\ state.boss # NULL \/ state.bossDefeated)
            => state'.boss # NULL \/ state'.bossDefeated ]_vars

\* BONK_BOSS has just been spawned, in phase 2, after the fall of PEPE_KING.
SecondBoss ==
    /\ gamePhase = "playing" /\ ev.op = "tick"
    /\ state.currentPhase = 2
    /\ state.boss # NULL
    /\ state.boss[1].type = "BONK_BOSS"
    /\ state.boss[1].id = state.nextMeteorId - 1
    /\ ~state.bossDefeated

\* A game in progress or lost with less than the cost of a simple wave and
\* no wave alive.
Bankrupt ==
    /\ gamePhase \in {"playing", "paused", "gameover"}
    /\ state.score < SimpleCost
    /\ state.waves = <<>>

\* C29: from a state with score < 10 and no live wave, every step other than
\* restartGame leaves the score as it is and creates no wave, and the game
\* stays in progress or ends in gameover, never in victory; so the state is
\* kept until restartGame.
BankruptcyAbsorbing ==
    [][ (Bankrupt /\ ~(gamePhase = "gameover" /\ gamePhase' = "playing"))
          => /\ state'.score = state.score
             /\ state'.waves = <<>>
             /\ state'.nextWaveId = state.nextWaveId
             /\ gamePhase' \in {"playing", "paused", "gameover"} ]_vars

\* A meteor has ended a game that began the frame bankrupt, its ten waves
\* spent.
BankruptGameOver ==
    /\ gamePhase = "gameover"
    /\ ev.op = "tick" /\ ev.phase0 = "playing"
    /\ ev.score0 < SimpleCost /\ state.score = ev.score0
    /\ ev.expired = <<>> /\ state.waves = <<>>
    /\ state.nextWaveId = 10

\* C30: in the earlier version the score is 0 and no wave exists in every
\* reachable state, no wave id is ever given out, and a game that has ended
\* has ended in gameover with the coin at 0 hp.
EarlyScoreZero ==
    /\ state.score = 0
    /\ state.waves = <<>>
    /\ state.nextWaveId = 0
    /\ gamePhase \in {"start", "playing", "paused", "gameover"}
    /\ gamePhase = "gameover" <=> state.hp = 0

\* The tenth meteor has ended a game in which the player clicked, to no
\* effect, while it was on its way.
EarlyLost ==
    /\ gamePhase = "gameover"
    /\ ev.op = "tick"
    /\ state.hp = 0
    /\ state.score = 0
    /\ state.mouseY = 200

====
